---- MODULE Spec2Model ----
(***************************************************************************)
(* Model of the session server of 3d-tic-tac-toe-lol:                      *)
(*   GameService / GameController  (backend/src/controllers/GameController.js) *)
(*   RoomController                (backend/src/middleware/validation.js)  *)
(*   SocketRateLimiter             (backend/src/middleware/socketRateLimiter.js) *)
(* The specifications share the variables:                                  *)
(*   SpecPure    GameService.validateMove / makeMove / checkWinner applied *)
(*               to every board, status and current player                 *)
(*   SpecGame    GameController.startGame / makeMove as interleaved async  *)
(*               handlers over the in-memory registry and the games table  *)
(*   SpecRoom    RoomController.createRoom / joinRoom / leaveRoom /        *)
(*               handleDisconnect as interleaved async handlers            *)
(*   SpecLimiter SocketRateLimiter.checkLimit / cleanup over a clock       *)
(*   SpecSanitize sanitizeChatMessage applied to texts built from tokens   *)
(*   SpecLobby   public rooms: create, join, leave, disconnect, spectate,  *)
(*               the clock and cleanupEmptyRooms                           *)
(*   SpecChat    handleChatMessage by members, spectators and strangers,   *)
(*               with restarts                                             *)
(*   SpecEvents  the packets of a connection through the rate limiting and *)
(*               validation middleware to the listeners                    *)
(*   SpecStart   GameController.startGame called with lists of players     *)
(*   SpecWarned  the limiter from a state with nine warnings               *)
(*   SpecPlay    one game played through GameService.makeMove, the player  *)
(*               to move moving on (weak fairness)                         *)
(*   SpecMatch   a room from its creation to the game of its members, with *)
(*               their leave-room and make-move events                     *)
(***************************************************************************)
EXTENDS Integers, Sequences, FiniteSets, TLC

VARIABLES
  pgs,          \* SpecPure: the gameState handed to GameService
  pcall,        \* SpecPure: the last call [playerId, x, y, result] or NULL
  activeGames,  \* GameController.activeGames of the controller the sockets use
  dbGames,      \* games table: roomId -> row (NULL: no row)
  dbPlayers,    \* players table: id -> [games_played, games_won, rating]
  mpc,          \* make-move handler of each socket: its position
  mloc,         \* make-move handler of each socket: its locals
  evictTimers,  \* timers handleGameEnd has set and that have not fired, per room
  gameUsed,     \* SpecGame: loads from the games table, failed saves, restarts so far
  out,          \* what the last step emitted: set of [to, ev, ...]
  roomObjs,     \* the room objects ever made: reference -> room (NULL: not made)
  activeRooms,  \* RoomController.activeRooms: roomId -> reference (NoRef: absent)
  roomKeys,     \* the keys of RoomController.activeRooms in the order the Map holds them
  playerRooms,  \* RoomController.playerRooms: playerId -> roomId (NULL: absent)
  dbRooms,      \* rooms table: roomId -> row (NULL: no row)
  dbChat,       \* chat_messages table: the rows in the order they were inserted
  rpc,          \* room handler of each socket: its position
  rloc,         \* room handler of each socket: its locals
  dpc,          \* handleDisconnect of each socket: its position
  roomUsed,     \* SpecRoom: requests, loads and failed saves so far, room ids disclosed
  connected,    \* sockets whose disconnect has not been handled
  now,          \* SpecLimiter: Date.now()
  clients,      \* SocketRateLimiter.clients: socketId -> clientData (NULL: absent)
  admitted,     \* SpecLimiter: every event checkLimit admitted, [socketId, type, timestamp, n]
  lastCheck,    \* SpecLimiter: the last checkLimit call and its result, or NULL
  nChecks,      \* SpecLimiter: checkLimit calls so far, [focus, other, base]
  stext,        \* SpecSanitize: the message handed to sanitizeChatMessage
  sres,         \* SpecSanitize: what sanitizeChatMessage returned, or None
  gate          \* SpecEvents: the stages the last inbound packet went through, or None

vars == << pgs, pcall, activeGames, dbGames, dbPlayers, mpc, mloc, evictTimers, gameUsed, out,
           roomObjs, activeRooms, roomKeys, playerRooms, dbRooms, dbChat,
           rpc, rloc, dpc, roomUsed,
           connected,
           now, clients, admitted, lastCheck, nChecks,
           stext, sres, gate >>

pureVars    == << pgs, pcall >>
gameVars    == << activeGames, dbGames, dbPlayers, mpc, mloc, evictTimers,
                  gameUsed >>
roomVars    == << roomObjs, activeRooms, roomKeys, playerRooms, dbRooms, dbChat,
                  rpc, rloc, dpc, roomUsed >>
limiterVars == << now, clients, admitted, lastCheck, nChecks >>
sanVars     == << stext, sres >>

NULL == "null"

\* null where the value would otherwise be an object
None == [none |-> TRUE]

\* socket ids; playerId = socket.playerId || socket.id, and socket.playerId is
\* only ever assigned that same value, so the player id is the socket id
Sockets == {"s1", "s2", "s3"}

(***************************************************************************)
(* GameService                                                             *)
(***************************************************************************)
BOARD_SIZE == 3

Idx == 0 .. (BOARD_SIZE - 1)

PlayerKeys == {"player1", "player2"}

Statuses == {"waiting", "playing", "finished", "draw", "abandoned"}

WINNING_COMBINATIONS ==
  << << <<0, 0>>, <<0, 1>>, <<0, 2>> >>,
     << <<1, 0>>, <<1, 1>>, <<1, 2>> >>,
     << <<2, 0>>, <<2, 1>>, <<2, 2>> >>,
     << <<0, 0>>, <<1, 0>>, <<2, 0>> >>,
     << <<0, 1>>, <<1, 1>>, <<2, 1>> >>,
     << <<0, 2>>, <<1, 2>>, <<2, 2>> >>,
     << <<0, 0>>, <<1, 1>>, <<2, 2>> >>,
     << <<0, 2>>, <<1, 1>>, <<2, 0>> >> >>

createEmptyBoard == [x \in Idx |-> [y \in Idx |-> NULL]]

\* A JavaScript number as far as the code looks at it: whether
\* Number.isInteger holds of it, and its floor (v >= 0 and v < 3 are decided
\* by the floor).
JsInt(i) == [int |-> TRUE, val |-> i]

JsFrac(i) == [int |-> FALSE, val |-> i]

isValidCoordinate(x, y) ==
  x.int /\ y.int /\ x.val >= 0 /\ x.val < BOARD_SIZE
                 /\ y.val >= 0 /\ y.val < BOARD_SIZE

RECURSIVE checkWinnerFrom(_, _)
checkWinnerFrom(board, i) ==
  IF i > Len(WINNING_COMBINATIONS) THEN NULL
  ELSE LET combination == WINNING_COMBINATIONS[i]
           cell1 == board[combination[1][1]][combination[1][2]]
           cell2 == board[combination[2][1]][combination[2][2]]
           cell3 == board[combination[3][1]][combination[3][2]]
       IN IF cell1 # NULL /\ cell1 = cell2 /\ cell2 = cell3
            THEN cell1
            ELSE checkWinnerFrom(board, i + 1)

\* faulty variant: the two diagonals are left out
checkWinnerMutNoDiagonals(board) ==
  LET r == checkWinnerFrom(board, 1)
  IN IF \E i \in 1..6 :
          LET c == WINNING_COMBINATIONS[i]
          IN /\ board[c[1][1]][c[1][2]] # NULL
             /\ board[c[1][1]][c[1][2]] = board[c[2][1]][c[2][2]]
             /\ board[c[2][1]][c[2][2]] = board[c[3][1]][c[3][2]]
       THEN r ELSE NULL

checkWinner(board) == checkWinnerFrom(board, 1)

\* faulty variant: a board is never full
isBoardFullMutNever(board) == FALSE

isBoardFull(board) == \A x \in Idx : \A y \in Idx : board[x][y] # NULL

\* gameState.players[gameState.currentPlayer]?.id
currentPlayerId(gameState) ==
  LET p == gameState.players[gameState.currentPlayer]
  IN IF p = None THEN NULL ELSE p.id

\* faulty variant: the turn is checked against player1 whatever currentPlayer is
validateMoveMutTurn(gameState, playerId, x, y) ==
  IF gameState.status # "playing"
    THEN [valid |-> FALSE, reason |-> "GAME_NOT_ACTIVE"]
  ELSE IF playerId # gameState.players["player1"].id
    THEN [valid |-> FALSE, reason |-> "NOT_YOUR_TURN"]
  ELSE IF ~ isValidCoordinate(x, y)
    THEN [valid |-> FALSE, reason |-> "INVALID_COORDINATES"]
  ELSE IF gameState.board[x.val][y.val] # NULL
    THEN [valid |-> FALSE, reason |-> "CELL_OCCUPIED"]
  ELSE [valid |-> TRUE, reason |-> NULL]

\* faulty variant: the turn is checked before the status
validateMoveMutTurnFirst(gameState, playerId, x, y) ==
  IF playerId # currentPlayerId(gameState)
    THEN [valid |-> FALSE, reason |-> "NOT_YOUR_TURN"]
  ELSE IF gameState.status # "playing"
    THEN [valid |-> FALSE, reason |-> "GAME_NOT_ACTIVE"]
  ELSE IF ~ isValidCoordinate(x, y)
    THEN [valid |-> FALSE, reason |-> "INVALID_COORDINATES"]
  ELSE IF gameState.board[x.val][y.val] # NULL
    THEN [valid |-> FALSE, reason |-> "CELL_OCCUPIED"]
  ELSE [valid |-> TRUE, reason |-> NULL]

validateMove(gameState, playerId, x, y) ==
  IF gameState.status # "playing"
    THEN [valid |-> FALSE, reason |-> "GAME_NOT_ACTIVE"]
  ELSE IF playerId # currentPlayerId(gameState)
    THEN [valid |-> FALSE, reason |-> "NOT_YOUR_TURN"]
  ELSE IF ~ isValidCoordinate(x, y)
    THEN [valid |-> FALSE, reason |-> "INVALID_COORDINATES"]
  ELSE IF gameState.board[x.val][y.val] # NULL
    THEN [valid |-> FALSE, reason |-> "CELL_OCCUPIED"]
  ELSE [valid |-> TRUE, reason |-> NULL]

\* faulty variant: the player to move is toggled after a winning move too
appliedStateMutToggles(gameState, playerId, x, y) ==
  LET currentPlayerKey == gameState.currentPlayer
      board == [gameState.board EXCEPT ![x.val][y.val] = currentPlayerKey]
      moveHistory == Append(gameState.moveHistory,
                       [playerId |-> playerId, playerKey |-> currentPlayerKey,
                        x |-> x.val, y |-> y.val,
                        moveNumber |-> Len(gameState.moveHistory) + 1])
      winner == checkWinner(board)
      moved == [gameState EXCEPT !.board = board, !.moveHistory = moveHistory,
                                 !.currentPlayer =
                                   IF currentPlayerKey = "player1"
                                     THEN "player2" ELSE "player1"]
  IN IF winner # NULL
       THEN [moved EXCEPT !.status = "finished",
                          !.winner = gameState.players[winner].id]
     ELSE IF isBoardFull(board)
       THEN [moved EXCEPT !.status = "draw"]
     ELSE moved

\* faulty variant: the full board is tested before the winner
appliedStateMutDrawFirst(gameState, playerId, x, y) ==
  LET currentPlayerKey == gameState.currentPlayer
      board == [gameState.board EXCEPT ![x.val][y.val] = currentPlayerKey]
      moveHistory == Append(gameState.moveHistory,
                       [playerId |-> playerId, playerKey |-> currentPlayerKey,
                        x |-> x.val, y |-> y.val,
                        moveNumber |-> Len(gameState.moveHistory) + 1])
      winner == checkWinner(board)
      moved == [gameState EXCEPT !.board = board, !.moveHistory = moveHistory]
  IN IF isBoardFull(board)
       THEN [moved EXCEPT !.status = "draw"]
     ELSE IF winner # NULL
       THEN [moved EXCEPT !.status = "finished",
                          !.winner = gameState.players[winner].id]
     ELSE [moved EXCEPT !.currentPlayer =
              IF currentPlayerKey = "player1" THEN "player2" ELSE "player1"]

\* faulty variant: a winning move finishes the game without naming the winner
appliedStateMutNoWinner(gameState, playerId, x, y) ==
  LET currentPlayerKey == gameState.currentPlayer
      board == [gameState.board EXCEPT ![x.val][y.val] = currentPlayerKey]
      moveHistory == Append(gameState.moveHistory,
                       [playerId |-> playerId, playerKey |-> currentPlayerKey,
                        x |-> x.val, y |-> y.val,
                        moveNumber |-> Len(gameState.moveHistory) + 1])
      winner == checkWinner(board)
      moved == [gameState EXCEPT !.board = board, !.moveHistory = moveHistory]
  IN IF winner # NULL
       THEN [moved EXCEPT !.status = "finished"]
     ELSE IF isBoardFull(board)
       THEN [moved EXCEPT !.status = "draw"]
     ELSE [moved EXCEPT !.currentPlayer =
              IF currentPlayerKey = "player1" THEN "player2" ELSE "player1"]

\* faulty variant: the moves are numbered from 0
appliedStateMutNumberedFromZero(gameState, playerId, x, y) ==
  LET currentPlayerKey == gameState.currentPlayer
      board == [gameState.board EXCEPT ![x.val][y.val] = currentPlayerKey]
      moveHistory == Append(gameState.moveHistory,
                       [playerId |-> playerId, playerKey |-> currentPlayerKey,
                        x |-> x.val, y |-> y.val,
                        moveNumber |-> Len(gameState.moveHistory)])
      winner == checkWinner(board)
      moved == [gameState EXCEPT !.board = board, !.moveHistory = moveHistory]
  IN IF winner # NULL
       THEN [moved EXCEPT !.status = "finished",
                          !.winner = gameState.players[winner].id]
     ELSE IF isBoardFull(board)
       THEN [moved EXCEPT !.status = "draw"]
     ELSE [moved EXCEPT !.currentPlayer =
              IF currentPlayerKey = "player1" THEN "player2" ELSE "player1"]

\* faulty variant: a winning move names the other player the winner
appliedStateMutOpponentWins(gameState, playerId, x, y) ==
  LET currentPlayerKey == gameState.currentPlayer
      board == [gameState.board EXCEPT ![x.val][y.val] = currentPlayerKey]
      moveHistory == Append(gameState.moveHistory,
                       [playerId |-> playerId, playerKey |-> currentPlayerKey,
                        x |-> x.val, y |-> y.val,
                        moveNumber |-> Len(gameState.moveHistory) + 1])
      winner == checkWinner(board)
      moved == [gameState EXCEPT !.board = board, !.moveHistory = moveHistory]
  IN IF winner # NULL
       THEN [moved EXCEPT !.status = "finished",
                          !.winner = gameState.players[
                             IF winner = "player1" THEN "player2"
                             ELSE "player1"].id]
     ELSE IF isBoardFull(board)
       THEN [moved EXCEPT !.status = "draw"]
     ELSE [moved EXCEPT !.currentPlayer =
              IF currentPlayerKey = "player1" THEN "player2" ELSE "player1"]

\* the state makeMove builds on its deep copy once the move is validated
appliedState(gameState, playerId, x, y) ==
  LET currentPlayerKey == gameState.currentPlayer
      board == [gameState.board EXCEPT ![x.val][y.val] = currentPlayerKey]
      moveHistory == Append(gameState.moveHistory,
                       [playerId |-> playerId, playerKey |-> currentPlayerKey,
                        x |-> x.val, y |-> y.val,
                        moveNumber |-> Len(gameState.moveHistory) + 1])
      winner == checkWinner(board)
      moved == [gameState EXCEPT !.board = board, !.moveHistory = moveHistory]
  IN IF winner # NULL
       THEN [moved EXCEPT !.status = "finished",
                          !.winner = gameState.players[winner].id]
     ELSE IF isBoardFull(board)
       THEN [moved EXCEPT !.status = "draw"]
     ELSE [moved EXCEPT !.currentPlayer =
              IF currentPlayerKey = "player1" THEN "player2" ELSE "player1"]

makeMove(gameState, playerId, x, y) ==
  LET validation == validateMove(gameState, playerId, x, y)
  IN IF ~ validation.valid
       THEN [success |-> FALSE, reason |-> validation.reason, gameState |-> None]
       ELSE [success |-> TRUE, reason |-> NULL,
             gameState |-> appliedState(gameState, playerId, x, y)]

createGame(roomId, players) ==
  [roomId |-> roomId,
   board |-> createEmptyBoard,
   players |-> [player1 |-> [id |-> players[1], symbol |-> "X"],
                player2 |-> [id |-> players[2], symbol |-> "O"]],
   currentPlayer |-> "player1",
   status |-> "playing",
   winner |-> NULL,
   moveHistory |-> << >>]

(***************************************************************************)
(* SpecPure: GameService applied to every board, status and current player *)
(***************************************************************************)
Cells == {NULL} \cup PlayerKeys

\* the coordinates handed to validateMove: integers around the board and a
\* non-integer inside it
Coords == {JsInt(i) : i \in -1 .. BOARD_SIZE} \cup {JsFrac(1)}

\* every board, either player to move, every status; the two players of
\* createGame; no move made yet
InitPure ==
  /\ pgs \in { [roomId |-> "r1", board |-> b,
                 players |-> [player1 |-> [id |-> "s1", symbol |-> "X"],
                              player2 |-> [id |-> "s2", symbol |-> "O"]],
                 currentPlayer |-> k, status |-> st, winner |-> NULL,
                 moveHistory |-> << >>] :
                b \in [Idx -> [Idx -> Cells]], k \in PlayerKeys, st \in Statuses }
  /\ pcall = None

IdlePure == pgs = None /\ pcall = None

\* the calls the specification makes on each state: either player and an
\* outsider, on cells of the board and on coordinates off it
PureCalls ==
  { << "s1", JsInt(0), JsInt(0) >>, << "s2", JsInt(1), JsInt(2) >>,
    << "s1", JsInt(2), JsInt(1) >>, << "s3", JsInt(1), JsInt(1) >>,
    << "s2", JsInt(BOARD_SIZE), JsInt(0) >>, << "s1", JsFrac(1), JsInt(1) >> }

PureMakeMove(playerId, x, y) ==
  /\ pcall = None
  /\ pcall' = [playerId |-> playerId, x |-> x, y |-> y,
               result |-> makeMove(pgs, playerId, x, y)]
  /\ UNCHANGED pgs

NextPure ==
  /\ \E c \in PureCalls : PureMakeMove(c[1], c[2], c[3])
  /\ UNCHANGED << gameVars, out, roomVars, connected, limiterVars, sanVars, gate >>

\* state after construction of the controllers and the limiter, no room yet
Rooms == {"r1", "r2"}

\* the rows of the players table: a player who won once and then lost 61
\* times, and new players
InitialPlayers ==
  [s \in Sockets |->
     IF s = "s1" THEN [games_played |-> 62, games_won |-> 1, rating |-> 110]
     ELSE [games_played |-> 0, games_won |-> 0, rating |-> 1000]]

InitGame ==
  /\ activeGames = [r \in Rooms |-> None]
  /\ dbGames = [r \in Rooms |-> None]
  /\ dbPlayers = InitialPlayers
  /\ mpc = [s \in Sockets |-> "idle"]
  /\ mloc = [s \in Sockets |-> None]
  /\ evictTimers = [r \in Rooms |-> 0]
  /\ gameUsed = [loads |-> 0, saveFails |-> 0, restarts |-> 0]

\* room objects are held by reference: a handler suspended at an await keeps
\* its object when the registry drops or replaces it
NoRef == 0
MaxRequests == 4
MaxRoomLoads == 2
MaxRoomSaveFails == 1
MaxRestarts == 1
Refs == 1 .. (Cardinality(Rooms) + MaxRoomLoads)

InitRoom ==
  /\ roomObjs = [ref \in Refs |-> None]
  /\ activeRooms = [r \in Rooms |-> NoRef]
  /\ roomKeys = << >>
  /\ roomUsed = [requests |-> 0, loads |-> 0, saveFails |-> 0, restarts |-> 0,
                 created |-> 0, known |-> {}, spectates |-> 0, chats |-> 0]
  /\ playerRooms = [s \in Sockets |-> NULL]
  /\ dbRooms = [r \in Rooms |-> None]
  /\ dbChat = << >>
  /\ rpc = [s \in Sockets |-> "idle"]
  /\ rloc = [s \in Sockets |-> None]
  /\ dpc = [s \in Sockets |-> "idle"]
  /\ connected = Sockets

IdleSanitize == stext = None /\ sres = None

InitLimiter ==
  /\ now = 0
  /\ clients = [s \in Sockets |-> None]
  /\ admitted = {}
  /\ lastCheck = None
  /\ nChecks = [focus |-> 0, other |-> 0, base |-> 0]

(***************************************************************************)
(* GameController: the games table, startGame and the make-move handler    *)
(***************************************************************************)
\* the row saveGameToDatabase writes (INSERT OR REPLACE): currentPlayer and
\* the players' symbols are not among its columns
gameRow(gameState) ==
  [player1_id |-> gameState.players["player1"].id,
   player2_id |-> IF gameState.players["player2"] = None THEN NULL
                  ELSE gameState.players["player2"].id,
   winner_id |-> gameState.winner,
   status |-> gameState.status,
   board |-> gameState.board,
   moves |-> gameState.moveHistory]

\* what loadGameFromDatabase SELECTs: the room's row if its status is waiting
\* or playing
selectGame(games, roomId) ==
  IF games[roomId] # None /\ games[roomId].status \in {"waiting", "playing"}
    THEN games[roomId] ELSE None

\* the object loadGameFromDatabase builds from a row
loadedState(roomId, gameData) ==
  [roomId |-> roomId,
   board |-> gameData.board,
   players |-> [player1 |-> [id |-> gameData.player1_id, symbol |-> NULL],
                player2 |-> IF gameData.player2_id = NULL THEN None
                            ELSE [id |-> gameData.player2_id, symbol |-> NULL]],
   currentPlayer |-> "player1",
   status |-> gameData.status,
   winner |-> gameData.winner_id,
   moveHistory |-> gameData.moves]

\* the room SpecGame plays in, the two players startGame is given, and the
\* sockets that send make-move
GameRooms == {"r1"}

GameSockets == {"s1", "s2"}

GamePlayers == << "s1", "s2" >>

\* the cells a client asks for: the first MoveChoice empty cells of the board
\* it last saw, in row-major order, and the first occupied one
MoveChoice == 2

CellsInOrder == [i \in 1 .. (BOARD_SIZE * BOARD_SIZE) |->
                   << (i - 1) \div BOARD_SIZE, (i - 1) % BOARD_SIZE >>]

seenBoard(roomId) ==
  IF activeGames[roomId] # None THEN activeGames[roomId].board
  ELSE IF dbGames[roomId] # None THEN dbGames[roomId].board
  ELSE createEmptyBoard

RECURSIVE pick(_, _, _, _)
pick(b, i, nEmpty, seenTaken) ==
  IF i > BOARD_SIZE * BOARD_SIZE THEN {}
  ELSE LET c == CellsInOrder[i]
       IN IF b[c[1]][c[2]] = NULL
            THEN (IF nEmpty < MoveChoice THEN {c} ELSE {})
                   \cup pick(b, i + 1, nEmpty + 1, seenTaken)
            ELSE (IF seenTaken THEN {} ELSE {c})
                   \cup pick(b, i + 1, nEmpty, TRUE)

Offered(roomId) == pick(seenBoard(roomId), 1, 0, FALSE)

update(gameState, playerId, x, y) ==
  [to |-> gameState.roomId, ev |-> "game-state-update",
   board |-> gameState.board, currentPlayer |-> gameState.currentPlayer,
   status |-> gameState.status, winner |-> gameState.winner,
   playerId |-> playerId, x |-> x, y |-> y]

\* lines 50-85 of the handler, run on the gameState it holds: validate, apply,
\* publish, and start the save
ValidateAndApply(s, roomId, x, y, gameState, registry) ==
  LET validation == validateMove(gameState, s, JsInt(x), JsInt(y))
      moveResult == makeMove(gameState, s, JsInt(x), JsInt(y))
  IN IF ~ validation.valid
       THEN /\ out' = {[to |-> s, ev |-> "move-rejected", reason |-> validation.reason]}
            /\ activeGames' = registry
            /\ mpc' = [mpc EXCEPT ![s] = "idle"]
            /\ mloc' = [mloc EXCEPT ![s] = None]
     ELSE IF ~ moveResult.success
       THEN /\ out' = {[to |-> s, ev |-> "move-rejected", reason |-> moveResult.reason]}
            /\ activeGames' = registry
            /\ mpc' = [mpc EXCEPT ![s] = "idle"]
            /\ mloc' = [mloc EXCEPT ![s] = None]
     ELSE /\ out' = {}
          /\ activeGames' = [registry EXCEPT ![roomId] = moveResult.gameState]
          /\ mpc' = [mpc EXCEPT ![s] = "save"]
          /\ mloc' = [mloc EXCEPT ![s] =
                        [roomId |-> roomId, x |-> x, y |-> y,
                         gameState |-> moveResult.gameState]]

\* handlers that find the game absent from memory and load it, and saves that
\* fail
MaxLoads == 2

MaxSaveFails == 1

MaxGameRestarts == 1

\* make-move arrives: lines 26-37 and, when the game is in memory, 50-85
MakeMoveBegin(s, roomId, x, y) ==
  /\ mpc[s] = "idle"
  /\ IF activeGames[roomId] = None
       THEN /\ gameUsed.loads < MaxLoads
            /\ gameUsed' = [gameUsed EXCEPT !.loads = @ + 1]
            /\ mpc' = [mpc EXCEPT ![s] = "load"]
            /\ mloc' = [mloc EXCEPT ![s] = [roomId |-> roomId, x |-> x, y |-> y]]
            /\ out' = {}
            /\ UNCHANGED activeGames
       ELSE /\ ValidateAndApply(s, roomId, x, y, activeGames[roomId], activeGames)
            /\ UNCHANGED gameUsed
  /\ UNCHANGED << dbGames, dbPlayers, evictTimers >>

\* the handler resumes after the load, with the row the SELECT of
\* loadGameFromDatabase found (a failed read is caught and is null):
\* lines 39-48, then 50-85
MakeMoveLoaded(s) ==
  /\ mpc[s] = "load"
  /\ \E ok \in BOOLEAN :
       LET l == mloc[s]
           gameData == IF ok THEN selectGame(dbGames, l.roomId) ELSE None
       IN IF gameData = None
            THEN /\ out' = {[to |-> s, ev |-> "game-error", reason |-> "GAME_NOT_FOUND"]}
                 /\ mpc' = [mpc EXCEPT ![s] = "idle"]
                 /\ mloc' = [mloc EXCEPT ![s] = None]
                 /\ UNCHANGED activeGames
            ELSE ValidateAndApply(s, l.roomId, l.x, l.y,
                                  loadedState(l.roomId, gameData),
                                  [activeGames EXCEPT ![l.roomId] =
                                     loadedState(l.roomId, gameData)])
  /\ UNCHANGED << dbGames, dbPlayers, evictTimers, gameUsed >>

\* the handler resumes after the save, the INSERT OR REPLACE of
\* saveGameToDatabase done: lines 87-113
MakeMoveSaved(s) ==
  /\ mpc[s] = "save"
  /\ LET l == mloc[s]
     IN /\ dbGames' = [dbGames EXCEPT ![l.roomId] = gameRow(l.gameState)]
        /\ out' = {update(l.gameState, s, l.x, l.y)}
        /\ IF l.gameState.status \in {"finished", "draw"}
             THEN /\ mpc' = [mpc EXCEPT ![s] = "stats"]
                  /\ UNCHANGED mloc
             ELSE /\ mpc' = [mpc EXCEPT ![s] = "idle"]
                  /\ mloc' = [mloc EXCEPT ![s] = None]
  /\ UNCHANGED << activeGames, dbPlayers, evictTimers, gameUsed >>

\* the INSERT fails and saveGameToDatabase rethrows: the catch of lines 115-121
MakeMoveSaveFailed(s) ==
  /\ mpc[s] = "save"
  /\ gameUsed.saveFails < MaxSaveFails
  /\ gameUsed' = [gameUsed EXCEPT !.saveFails = @ + 1]
  /\ out' = {[to |-> s, ev |-> "game-error", reason |-> "MOVE_ERROR"]}
  /\ mpc' = [mpc EXCEPT ![s] = "idle"]
  /\ mloc' = [mloc EXCEPT ![s] = None]
  /\ UNCHANGED << activeGames, dbGames, dbPlayers, evictTimers >>

\* the two UPDATEs updatePlayerStats runs for one player
playerStats(row, isWinner, isDraw) ==
  LET played == [row EXCEPT !.games_played = @ + 1,
                            !.games_won = @ + (IF isWinner THEN 1 ELSE 0)]
      ratingChange == IF isWinner THEN 25 ELSE -15
  IN IF isDraw THEN played
     ELSE [played EXCEPT !.rating =
             IF @ + ratingChange > 100 THEN @ + ratingChange ELSE 100]

\* the players table after updatePlayerStats(gameState): the loop over
\* Object.entries(gameState.players), player1 then player2
updatePlayerStats(gameState, table) ==
  LET after(rows, playerKey) ==
        LET player == gameState.players[playerKey]
        IN IF player = None THEN rows
           ELSE [rows EXCEPT ![player.id] =
                   playerStats(@, gameState.winner = player.id,
                               gameState.status = "draw")]
  IN after(after(table, "player1"), "player2")

\* handleGameEnd: updatePlayerStats, game-ended, and the timer
HandleGameEnd(s) ==
  /\ mpc[s] = "stats"
  /\ LET gameState == mloc[s].gameState
     IN /\ dbPlayers' = updatePlayerStats(gameState, dbPlayers)
        /\ out' = {[to |-> gameState.roomId, ev |-> "game-ended",
                    winner |-> gameState.winner, status |-> gameState.status]}
        /\ evictTimers' = [evictTimers EXCEPT ![gameState.roomId] = @ + 1]
  /\ mpc' = [mpc EXCEPT ![s] = "idle"]
  /\ mloc' = [mloc EXCEPT ![s] = None]
  /\ UNCHANGED << activeGames, dbGames, gameUsed >>

\* a timer of handleGameEnd fires, 30 seconds after it was set
EvictGame(roomId) ==
  /\ evictTimers[roomId] > 0
  /\ evictTimers' = [evictTimers EXCEPT ![roomId] = @ - 1]
  /\ activeGames' = [activeGames EXCEPT ![roomId] = None]
  /\ out' = {}
  /\ UNCHANGED << dbGames, dbPlayers, mpc, mloc, gameUsed >>

\* RoomController.checkGameStart: startGame on a GameController of its own,
\* whose registry nothing else ever reads; the game reaches the sockets'
\* controller through the games table only
StartGame(roomId, players) ==
  /\ dbGames[roomId] = None
  /\ dbGames' = [dbGames EXCEPT ![roomId] = gameRow(createGame(roomId, players))]
  /\ out' = {[to |-> roomId, ev |-> "game-started"]}
  /\ UNCHANGED << activeGames, dbPlayers, mpc, mloc, evictTimers, gameUsed >>

\* the server process is started again: the registry, the running handlers
\* and the timers are gone, the games table remains
GameRestart ==
  /\ gameUsed.restarts < MaxGameRestarts
  /\ gameUsed' = [gameUsed EXCEPT !.restarts = @ + 1]
  /\ activeGames' = [r \in Rooms |-> None]
  /\ mpc' = [s \in Sockets |-> "idle"]
  /\ mloc' = [s \in Sockets |-> None]
  /\ evictTimers' = [r \in Rooms |-> 0]
  /\ out' = {}
  /\ UNCHANGED << dbGames, dbPlayers >>

GameFrame == UNCHANGED << pureVars, roomVars, connected, limiterVars, sanVars, gate >>

NextGame ==
  \/ \E roomId \in GameRooms :
       StartGame(roomId, GamePlayers) /\ GameFrame
  \/ \E s \in GameSockets : \E roomId \in GameRooms : \E c \in Offered(roomId) :
       MakeMoveBegin(s, roomId, c[1], c[2]) /\ GameFrame
  \/ \E s \in GameSockets :
       MakeMoveLoaded(s) /\ GameFrame
  \/ \E s \in GameSockets :
       MakeMoveSaved(s) /\ GameFrame
  \/ \E s \in GameSockets :
       MakeMoveSaveFailed(s) /\ GameFrame
  \/ \E s \in GameSockets :
       HandleGameEnd(s) /\ GameFrame
  \/ \E roomId \in GameRooms :
       EvictGame(roomId) /\ GameFrame
  \/ GameRestart /\ GameFrame

\* no room, no game, no handler running, no event checked
Init ==
  /\ IdlePure /\ InitGame /\ InitRoom /\ InitLimiter /\ IdleSanitize
  /\ gate = None
  /\ out = {}

SpecGame == Init /\ [][NextGame]_vars

(***************************************************************************)
(* SpecStart: GameController.startGame applied to lists of players         *)
(***************************************************************************)
\* faulty variant: only too few players are refused
playersRefusedMutTooFew(players) == Len(players) < 2

\* players.length !== 2
playersRefused(players) == Len(players) # 2

\* the lists of players startGame is called with: none to three players
MaxPlayersListed == 3

PlayerLists ==
  UNION {[1 .. n -> Sockets] : n \in 0 .. MaxPlayersListed}

Thrown == [thrown |-> TRUE]

InitStart ==
  /\ pgs = None
  /\ pcall \in {[roomId |-> roomId, players |-> players] :
                  roomId \in Rooms, players \in PlayerLists}
  /\ InitGame /\ InitRoom /\ InitLimiter /\ IdleSanitize
  /\ gate = None
  /\ out = {}

\* startGame(roomId, players): pgs is what it returns, or Thrown
StartGameCall ==
  /\ pgs = None
  /\ IF playersRefused(pcall.players)
       THEN /\ pgs' = Thrown
            /\ out' = {}
            /\ UNCHANGED << activeGames, dbGames >>
       ELSE LET gameState == createGame(pcall.roomId, pcall.players)
            IN /\ activeGames' = [activeGames EXCEPT ![pcall.roomId] = gameState]
               /\ \E ok \in BOOLEAN :
                    IF ok
                      THEN /\ dbGames' = [dbGames EXCEPT ![pcall.roomId] =
                                            gameRow(gameState)]
                           /\ out' = {[to |-> pcall.roomId, ev |-> "game-started",
                                       players |-> gameState.players,
                                       currentPlayer |-> gameState.currentPlayer,
                                       board |-> gameState.board]}
                           /\ pgs' = gameState
                      ELSE /\ pgs' = Thrown
                           /\ out' = {}
                           /\ UNCHANGED dbGames
  /\ UNCHANGED << pcall, dbPlayers, mpc, mloc, evictTimers, gameUsed >>

NextStart ==
  StartGameCall /\ UNCHANGED << roomVars, connected, limiterVars, sanVars, gate >>

SpecStart == InitStart /\ [][NextStart]_vars

(***************************************************************************)
(* SpecPlay: one game from createGame on, GameService.makeMove called with *)
(* the moves of the two players; the player to move keeps moving           *)
(***************************************************************************)
InitPlay ==
  /\ pgs = createGame("r1", GamePlayers)
  /\ pcall = None
  /\ InitGame /\ InitRoom /\ InitLimiter /\ IdleSanitize
  /\ gate = None
  /\ out = {}

\* the cells the players ask for: the first PlayChoice empty cells of the
\* board in row-major order, and every occupied cell
PlayChoice == 3

PlayCells ==
  LET empty(c) == pgs.board[c[1]][c[2]] = NULL
      empties == SelectSeq(CellsInOrder, empty)
  IN {empties[i] : i \in 1 .. (IF Len(empties) < PlayChoice
                                THEN Len(empties) ELSE PlayChoice)}
       \cup {c \in Idx \X Idx : ~ empty(c)}

\* the player whose turn it is submits a move that makeMove accepts
PlayMove(x, y) ==
  LET moveResult == makeMove(pgs, currentPlayerId(pgs), JsInt(x), JsInt(y))
  IN /\ pgs.status = "playing"
     /\ moveResult.success
     /\ pgs' = moveResult.gameState
     /\ out' = {}
     /\ UNCHANGED pcall

\* a move that makeMove rejects: the state stays
PlayRejected(playerId, x, y) ==
  LET moveResult == makeMove(pgs, playerId, JsInt(x), JsInt(y))
  IN /\ ~ moveResult.success
     /\ out' = {[to |-> playerId, ev |-> "move-rejected",
                 reason |-> moveResult.reason]}
     /\ UNCHANGED << pgs, pcall >>

PlayFrame ==
  UNCHANGED << gameVars, roomVars, connected, limiterVars, sanVars, gate >>

NextPlay ==
  \/ \E c \in PlayCells :
       PlayMove(c[1], c[2]) /\ PlayFrame
  \/ \E playerId \in GameSockets : \E c \in PlayCells :
       PlayRejected(playerId, c[1], c[2]) /\ PlayFrame

\* the two players keep submitting valid moves on their turns
PlayOn == WF_vars(\E c \in PlayCells : PlayMove(c[1], c[2]) /\ PlayFrame)

SpecPlay == InitPlay /\ [][NextPlay]_vars /\ PlayOn

InitPureSpec ==
  /\ InitPure /\ InitGame /\ InitRoom /\ InitLimiter /\ IdleSanitize
  /\ gate = None
  /\ out = {}

SpecPure == InitPureSpec /\ [][NextPure]_vars

(***************************************************************************)
(* sanitizeChatMessage (validation.js); a string is the sequence of its    *)
(* characters                                                              *)
(***************************************************************************)
\* the i flag of the script pattern: the letters of "script" in either case
lower(c) ==
  CASE c = "S" -> "s" [] c = "C" -> "c" [] c = "R" -> "r"
    [] c = "I" -> "i" [] c = "P" -> "p" [] c = "T" -> "t"
    [] OTHER -> c

\* \w of the characters the texts are made of
WordChars == {"a", "c", "e", "h", "i", "l", "o", "p", "r", "s", "t",
              "S", "C", "R", "I", "P", "T", "1", "_"}

Whitespace == {" "}

\* whether pattern p, compared without case, stands in m at position i
matchesAt(m, i, p) ==
  /\ i + Len(p) - 1 <= Len(m)
  /\ \A k \in 1 .. Len(p) : lower(m[i + k - 1]) = p[k]

\* the position of the first character c of m at or after i, 0 if none
RECURSIVE indexOfChar(_, _, _)
indexOfChar(m, c, i) ==
  IF i > Len(m) THEN 0
  ELSE IF m[i] = c THEN i
  ELSE indexOfChar(m, c, i + 1)

\* message.replace(/<[^>]*>/g, ''), from position i on
RECURSIVE removeTagsFrom(_, _)
removeTagsFrom(m, i) ==
  IF i > Len(m) THEN << >>
  ELSE LET close == IF m[i] = "<" THEN indexOfChar(m, ">", i + 1) ELSE 0
       IN IF close # 0
            THEN removeTagsFrom(m, close + 1)
            ELSE << m[i] >> \o removeTagsFrom(m, i + 1)

removeTags(m) == removeTagsFrom(m, 1)

ScriptOpen == << "<", "s", "c", "r", "i", "p", "t" >>

ScriptClose == << "<", "/", "s", "c", "r", "i", "p", "t", ">" >>

\* the position of the first </script> of m at or after i, 0 if none
RECURSIVE indexOfClose(_, _)
indexOfClose(m, i) ==
  IF i > Len(m) THEN 0
  ELSE IF matchesAt(m, i, ScriptClose) THEN i
  ELSE indexOfClose(m, i + 1)

\* sanitized.replace(/<script\b[^<]*(?:(?!<\/script>)<[^<]*)*<\/script>/gi, ''),
\* from position i on: <script at a word boundary, then everything up to and
\* including the first </script>
RECURSIVE removeScriptsFrom(_, _)
removeScriptsFrom(m, i) ==
  IF i > Len(m) THEN << >>
  ELSE LET after == i + Len(ScriptOpen)
           close == IF /\ matchesAt(m, i, ScriptOpen)
                       /\ after <= Len(m)
                       /\ m[after] \notin WordChars
                      THEN indexOfClose(m, after) ELSE 0
       IN IF close # 0
            THEN removeScriptsFrom(m, close + Len(ScriptClose))
            ELSE << m[i] >> \o removeScriptsFrom(m, i + 1)

removeScripts(m) == removeScriptsFrom(m, 1)

\* m.replace(/c/g, entity)
RECURSIVE replaceChar(_, _, _)
replaceChar(m, c, entity) ==
  IF m = << >> THEN << >>
  ELSE IF Len(m) = 1 THEN (IF m[1] = c THEN entity ELSE m)
  ELSE LET half == Len(m) \div 2
       IN replaceChar(SubSeq(m, 1, half), c, entity)
            \o replaceChar(SubSeq(m, half + 1, Len(m)), c, entity)

escape(m) ==
  LET amp   == replaceChar(m, "&", << "&", "a", "m", "p", ";" >>)
      lt    == replaceChar(amp, "<", << "&", "l", "t", ";" >>)
      gt    == replaceChar(lt, ">", << "&", "g", "t", ";" >>)
      quot  == replaceChar(gt, "\"", << "&", "q", "u", "o", "t", ";" >>)
      apos  == replaceChar(quot, "'", << "&", "#", "x", "2", "7", ";" >>)
  IN replaceChar(apos, "/", << "&", "#", "x", "2", "F", ";" >>)

MaxMessageLength == 200

substring(m, n) == IF Len(m) > n THEN SubSeq(m, 1, n) ELSE m

RECURSIVE trimStart(_)
trimStart(m) ==
  IF m # << >> /\ Head(m) \in Whitespace THEN trimStart(Tail(m)) ELSE m

RECURSIVE trimEnd(_)
trimEnd(m) ==
  IF m # << >> /\ m[Len(m)] \in Whitespace
    THEN trimEnd(SubSeq(m, 1, Len(m) - 1)) ELSE m

trim(m) == trimEnd(trimStart(m))

\* a JavaScript value as far as the code looks at it: whether typeof gives
\* 'string', and its characters
JsString(chars) == [string |-> TRUE, chars |-> chars]

JsOther == [string |-> FALSE, chars |-> << >>]

sanitizeChatMessage(message) ==
  IF ~ message.string THEN << >>
  ELSE trim(substring(escape(removeScripts(removeTags(message.chars))),
                      MaxMessageLength))

(***************************************************************************)
(* SpecSanitize: sanitizeChatMessage applied to every text of at most      *)
(* MaxTokens tokens                                                        *)
(***************************************************************************)
Hello == << "h", "e", "l", "l", "o" >>

Tokens ==
  { << "<", "s", "c", "r", "i", "p", "t", ">" >>,
    << "<", "S", "C", "R", "I", "P", "T", " " >>,
    << "a", "l", "e", "r", "t", "(", "1", ")" >>,
    ScriptClose,
    Hello,
    << "<" >>, << ">" >>, << " " >>, << "&", "\"", "'", "/" >>,
    [i \in 1 .. 41 |-> "&"] }

MaxTokens == 4

RECURSIVE TextsOf(_)
TextsOf(n) ==
  IF n = 0 THEN {<< >>}
  ELSE LET shorter == TextsOf(n - 1)
       IN shorter \cup {t \o tok : t \in shorter, tok \in Tokens}

Texts == TextsOf(MaxTokens) \ {<< >>}

InitSanitize ==
  /\ IdlePure /\ InitGame /\ InitRoom /\ InitLimiter /\ out = {}
  /\ stext \in {JsString(t) : t \in Texts} \cup {JsOther}
  /\ sres = None
  /\ gate = None

Sanitize ==
  /\ sres = None
  /\ sres' = [value |-> sanitizeChatMessage(stext)]
  /\ UNCHANGED stext

NextSanitize ==
  Sanitize /\ UNCHANGED << pureVars, gameVars, out, roomVars, connected, limiterVars,
                          gate >>

SpecSanitize == InitSanitize /\ [][NextSanitize]_vars

(***************************************************************************)
(* RoomController                                                          *)
(***************************************************************************)
\* maxPlayers and the privacy options a create-room carries, the passwords a
\* join-room carries
CreateOptions == {[maxPlayers |-> 2, isPrivate |-> FALSE, password |-> NULL],
                  [maxPlayers |-> 2, isPrivate |-> TRUE, password |-> "pw"],
                  [maxPlayers |-> 3, isPrivate |-> FALSE, password |-> NULL]}
Passwords == {NULL, "pw", "bad"}

\* the clients that send create-room
Creators == {"s1", "s2"}

\* bcrypt.hash and bcrypt.compare
hash(password) == << "bcrypt", password >>
compare(password, hashed) == hashed = hash(password)

\* room.players is a Map: insertion order, one entry per player id
Members(room) == {room.players[i] : i \in 1 .. Len(room.players)}

playersSet(players, playerId) ==
  IF \E i \in 1 .. Len(players) : players[i] = playerId
    THEN players ELSE Append(players, playerId)

playersDelete(players, playerId) ==
  LET other(q) == q # playerId
  IN SelectSeq(players, other)

\* the row saveRoomToDatabase writes
roomRow(room) ==
  [id |-> room.id, is_private |-> room.isPrivate, password |-> room.password,
   max_players |-> room.maxPlayers, current_players |-> room.currentPlayers,
   status |-> room.status, created_by |-> room.createdBy,
   created_at |-> room.createdAt]

\* the object loadRoomFromDatabase builds
loadedRoom(roomData) ==
  [id |-> roomData.id, isPrivate |-> roomData.is_private,
   password |-> roomData.password, maxPlayers |-> roomData.max_players,
   currentPlayers |-> 0, status |-> roomData.status,
   createdBy |-> roomData.created_by, createdAt |-> roomData.created_at,
   players |-> << >>, spectators |-> {}, chatHistory |-> << >>]

\* the memory and the rooms table the handlers work on
World ==
  [objs |-> roomObjs, reg |-> activeRooms, keys |-> roomKeys, pr |-> playerRooms,
   db |-> dbRooms, chat |-> dbChat]

\* activeRooms.set(roomId, room): a new key goes to the end of the Map, a key
\* the Map holds keeps its place
regSet(w, roomId, ref) ==
  [w EXCEPT !.reg[roomId] = ref,
            !.keys = IF w.reg[roomId] = NoRef THEN Append(@, roomId) ELSE @]

\* activeRooms.delete(roomId)
regDelete(w, roomId) ==
  LET other(k) == k # roomId
  IN [w EXCEPT !.reg[roomId] = NoRef, !.keys = SelectSeq(@, other)]

freeRef(w) == CHOOSE ref \in Refs :
                /\ w.objs[ref] = None
                /\ \A other \in Refs : w.objs[other] = None => ref <= other

\* the uuids createRoom draws, in the order it draws them
Uuids == << "r1", "r2" >>

\* leaveRoom up to its await, with the write it then makes to the rooms table
leaveRoom(w, playerId, roomId) ==
  LET ref == w.reg[roomId]
  IN IF ref = NoRef
       THEN [w |-> w, out |-> {}, awaited |-> FALSE]
       ELSE LET players == playersDelete(w.objs[ref].players, playerId)
                room == [w.objs[ref] EXCEPT !.players = players,
                                            !.currentPlayers = Len(players)]
                w1 == [w EXCEPT !.objs[ref] = room, !.pr[playerId] = NULL]
            IN [w |-> IF room.currentPlayers = 0
                        THEN [regDelete(w1, roomId) EXCEPT !.db[roomId] = None]
                        ELSE [w1 EXCEPT !.db[roomId] = roomRow(room)],
                out |-> {[to |-> roomId, ev |-> "player-left",
                          playerId |-> playerId,
                          currentPlayers |-> room.currentPlayers]},
                awaited |-> TRUE]

roomError(w, s, code) ==
  [w |-> w, out |-> {[to |-> s, ev |-> "room-error", code |-> code]},
   pc |-> "idle", loc |-> None]

\* joinRoom: the player is added, up to the await of saveRoomToDatabase; the
\* handler remembers the members and the status it left the room with
joinInsert(w, out0, s, roomId, ref) ==
  LET players == playersSet(w.objs[ref].players, s)
      room == [w.objs[ref] EXCEPT !.players = players,
                                  !.currentPlayers = Len(players)]
  IN [w |-> [w EXCEPT !.objs[ref] = room, !.pr[s] = roomId],
      out |-> out0,
      pc |-> "save",
      loc |-> [roomId |-> roomId, room |-> ref, row |-> roomRow(room),
               joined |-> [players |-> players, status |-> room.status]]]

\* joinRoom: the prior room is left, up to the await of leaveRoom
joinPassed(w, s, roomId, ref) ==
  LET currentRoom == w.pr[s]
  IN IF currentRoom # NULL /\ currentRoom # roomId
       THEN LET left == leaveRoom(w, s, currentRoom)
            IN IF left.awaited
                 THEN [w |-> left.w, out |-> left.out, pc |-> "leave",
                       loc |-> [roomId |-> roomId, room |-> ref]]
                 ELSE joinInsert(left.w, left.out, s, roomId, ref)
       ELSE joinInsert(w, {}, s, roomId, ref)

\* faulty variant: the spectators count against the capacity
roomFullMutCountsSpectators(room) ==
  room.currentPlayers + Cardinality(room.spectators) >= room.maxPlayers

\* room.currentPlayers >= room.maxPlayers
roomFull(room) == room.currentPlayers >= room.maxPlayers

\* joinRoom: the capacity and password checks, up to the await of
\* bcrypt.compare
joinChecked(w, s, roomId, ref, password) ==
  LET room == w.objs[ref]
  IN IF roomFull(room)
       THEN roomError(w, s, "ROOM_FULL")
     ELSE IF room.isPrivate /\ room.password # NULL
       THEN IF password = NULL
              THEN roomError(w, s, "PASSWORD_REQUIRED")
              ELSE [w |-> w, out |-> {}, pc |-> "compare",
                    loc |-> [roomId |-> roomId, room |-> ref,
                             password |-> password]]
     ELSE joinPassed(w, s, roomId, ref)

\* a handler step ends: memory, table, emissions, position and locals
CommitWorld(w) ==
  /\ roomObjs' = w.objs
  /\ activeRooms' = w.reg
  /\ roomKeys' = w.keys
  /\ playerRooms' = w.pr
  /\ dbRooms' = w.db
  /\ dbChat' = w.chat

Commit(s, r) ==
  /\ CommitWorld(r.w)
  /\ out' = r.out
  /\ rpc' = [rpc EXCEPT ![s] = r.pc]
  /\ rloc' = [rloc EXCEPT ![s] = r.loc]
  /\ dpc' = dpc

\* saveGameToDatabase succeeds or, a bounded number of times, fails; the writes
\* to the rooms table, whose errors saveRoomToDatabase only logs, succeed
Written(ok) ==
  /\ ok \/ roomUsed.saveFails < MaxRoomSaveFails
  /\ roomUsed' = IF ok THEN roomUsed
                 ELSE [roomUsed EXCEPT !.saveFails = @ + 1]

\* a connected client sends one more event
Requested(s) ==
  /\ s \in connected
  /\ roomUsed.requests < MaxRequests

\* a client names a room whose uuid room-created has disclosed
Known(roomId) == roomId \in roomUsed.known

\* createRoom up to the await of saveRoomToDatabase; the roomId is a fresh uuid
CreateRoom(s, opt) ==
  /\ Requested(s)
  /\ rpc[s] = "idle"
  /\ roomUsed.created < Len(Uuids)
  /\ LET roomId == Uuids[roomUsed.created + 1]
         ref == freeRef(World)
         room == [id |-> roomId, isPrivate |-> opt.isPrivate,
                  password |-> IF opt.password # NULL
                                 THEN hash(opt.password) ELSE NULL,
                  maxPlayers |-> opt.maxPlayers, currentPlayers |-> 1,
                  status |-> "waiting", createdBy |-> s, createdAt |-> now,
                  players |-> << s >>, spectators |-> {}, chatHistory |-> << >>]
     IN Commit(s, [w |-> [regSet(World, roomId, ref) EXCEPT !.objs[ref] = room,
                                                            !.pr[s] = roomId],
                   out |-> {},
                   pc |-> "create",
                   loc |-> [roomId |-> roomId, room |-> ref,
                            row |-> roomRow(room)]])
  /\ roomUsed' = [roomUsed EXCEPT !.requests = @ + 1, !.created = @ + 1]
  /\ UNCHANGED << connected, dbGames >>

\* createRoom after saveRoomToDatabase
CreateRoomSaved(s) ==
  /\ rpc[s] = "create"
  /\ Commit(s, [w |-> [World EXCEPT !.db[rloc[s].roomId] = rloc[s].row],
                out |-> {[to |-> s, ev |-> "room-created",
                          roomId |-> rloc[s].roomId]},
                pc |-> "idle", loc |-> None])
  /\ roomUsed' = [roomUsed EXCEPT !.known =
                     IF s \in connected THEN @ \cup {rloc[s].roomId} ELSE @]
  /\ UNCHANGED << connected, dbGames >>

\* joinRoom up to its first await
JoinRoom(s, roomId, password) ==
  /\ Requested(s)
  /\ Known(roomId)
  /\ rpc[s] = "idle"
  /\ IF activeRooms[roomId] = NoRef
       THEN /\ roomUsed.loads < MaxRoomLoads
            /\ roomUsed' = [roomUsed EXCEPT !.requests = @ + 1, !.loads = @ + 1]
            /\ Commit(s, [w |-> World, out |-> {}, pc |-> "load",
                          loc |-> [roomId |-> roomId, password |-> password]])
       ELSE /\ Commit(s, joinChecked(World, s, roomId, activeRooms[roomId],
                                     password))
            /\ roomUsed' = [roomUsed EXCEPT !.requests = @ + 1]
  /\ UNCHANGED << connected, dbGames >>

\* joinRoom after loadRoomFromDatabase
JoinRoomLoaded(s) ==
  /\ rpc[s] = "load"
  /\ \E ok \in BOOLEAN :
       LET roomId == rloc[s].roomId
           roomData == IF ok THEN dbRooms[roomId] ELSE None
           ref == freeRef(World)
       IN IF roomData = None
            THEN Commit(s, roomError(World, s, "ROOM_NOT_FOUND"))
            ELSE Commit(s, joinChecked([regSet(World, roomId, ref) EXCEPT
                                          !.objs[ref] = loadedRoom(roomData)],
                                       s, roomId, ref, rloc[s].password))
  /\ UNCHANGED << roomUsed, connected, dbGames >>

\* joinRoom after bcrypt.compare
JoinRoomCompared(s) ==
  /\ rpc[s] = "compare"
  /\ LET ref == rloc[s].room
     IN IF compare(rloc[s].password, roomObjs[ref].password)
          THEN Commit(s, joinPassed(World, s, rloc[s].roomId, ref))
          ELSE Commit(s, roomError(World, s, "INVALID_PASSWORD"))
  /\ UNCHANGED << roomUsed, connected, dbGames >>

\* joinRoom after the leaveRoom of the prior room
JoinRoomLeft(s) ==
  /\ rpc[s] = "leave"
  /\ Commit(s, joinInsert(World, {}, s, rloc[s].roomId, rloc[s].room))
  /\ UNCHANGED << roomUsed, connected, dbGames >>

\* joinRoom after saveRoomToDatabase: the broadcasts, then checkGameStart up
\* to the await in startGame
JoinRoomSaved(s) ==
  /\ rpc[s] = "save"
  /\ LET roomId == rloc[s].roomId
         ref == rloc[s].room
         room == roomObjs[ref]
         w == [World EXCEPT !.db[roomId] = rloc[s].row]
         joined == {[to |-> roomId, ev |-> "player-joined", playerId |-> s,
                     currentPlayers |-> room.currentPlayers],
                    [to |-> s, ev |-> "room-joined", roomId |-> roomId]}
     IN IF room.currentPlayers = 2 /\ room.status = "waiting"
          THEN Commit(s, [w |-> [w EXCEPT !.objs[ref].status = "playing"],
                          out |-> joined,
                          pc |-> "startGame",
                          loc |-> [roomId |-> roomId, room |-> ref,
                                   joined |-> rloc[s].joined,
                                   game |-> gameRow(createGame(roomId,
                                                              room.players))]])
          ELSE Commit(s, [w |-> w, out |-> joined, pc |-> "idle", loc |-> None])
  /\ UNCHANGED << roomUsed, connected, dbGames >>

\* startGame after saveGameToDatabase, then checkGameStart up to the await of
\* saveRoomToDatabase; a failed save is thrown up to joinRoom's catch
GameStarted(s) ==
  /\ rpc[s] = "startGame"
  /\ \E ok \in BOOLEAN :
       /\ Written(ok)
       /\ IF ok
            THEN /\ dbGames' = [dbGames EXCEPT ![rloc[s].roomId] = rloc[s].game]
                 /\ Commit(s, [w |-> World,
                               out |-> {[to |-> rloc[s].roomId,
                                         ev |-> "game-started",
                                         player1 |-> rloc[s].game.player1_id,
                                         player2 |-> rloc[s].game.player2_id]},
                               pc |-> "startRoom",
                               loc |-> [roomId |-> rloc[s].roomId,
                                        room |-> rloc[s].room,
                                        joined |-> rloc[s].joined,
                                        row |-> roomRow(roomObjs[rloc[s].room])]])
            ELSE /\ UNCHANGED dbGames
                 /\ Commit(s, roomError(World, s, "JOIN_ROOM_ERROR"))
  /\ UNCHANGED connected

\* checkGameStart after saveRoomToDatabase
GameStartSaved(s) ==
  /\ rpc[s] = "startRoom"
  /\ Commit(s, [w |-> [World EXCEPT !.db[rloc[s].roomId] = rloc[s].row],
                out |-> {}, pc |-> "idle", loc |-> None])
  /\ UNCHANGED << roomUsed, connected, dbGames >>

\* the leave-room handler
LeaveRoom(s, roomId) ==
  /\ Requested(s)
  /\ Known(roomId)
  /\ LET left == leaveRoom(World, s, roomId)
     IN Commit(s, [w |-> left.w, out |-> left.out, pc |-> rpc[s],
                   loc |-> rloc[s]])
  /\ roomUsed' = [roomUsed EXCEPT !.requests = @ + 1]
  /\ UNCHANGED << connected, dbGames >>

\* the first room, in the order of the Map, that has the socket among its
\* spectators; 0 if none
RECURSIVE firstSpectated(_, _, _)
firstSpectated(w, socketId, i) ==
  IF i > Len(w.keys) THEN 0
  ELSE IF socketId \in w.objs[w.reg[w.keys[i]]].spectators THEN i
  ELSE firstSpectated(w, socketId, i + 1)

\* handleDisconnect after leaveRoom: the loop over activeRooms.entries(), which
\* breaks at the first room it removes the socket from
removeSpectator(w, socketId) ==
  LET i == firstSpectated(w, socketId, 1)
  IN IF i = 0 THEN w
     ELSE [w EXCEPT !.objs[w.reg[w.keys[i]]].spectators = @ \ {socketId}]

\* a handler step of handleDisconnect ends
CommitDisconnect(s, w, emitted, position) ==
  /\ CommitWorld(w)
  /\ out' = emitted
  /\ dpc' = [dpc EXCEPT ![s] = position]
  /\ UNCHANGED << rpc, rloc >>

\* the disconnect handler: handleDisconnect up to the await of leaveRoom, or
\* to its end when the player is in no room
HandleDisconnect(s) ==
  /\ Requested(s)
  /\ connected' = connected \ {s}
  /\ LET roomId == playerRooms[s]
         left == IF roomId # NULL THEN leaveRoom(World, s, roomId)
                 ELSE [w |-> World, out |-> {}, awaited |-> FALSE]
     IN IF left.awaited
          THEN CommitDisconnect(s, left.w, left.out, "left")
          ELSE CommitDisconnect(s, removeSpectator(left.w, s), left.out, "idle")
  /\ roomUsed' = [roomUsed EXCEPT !.requests = @ + 1]
  /\ UNCHANGED dbGames

\* handleDisconnect after the await of leaveRoom
HandleDisconnectLeft(s) ==
  /\ dpc[s] = "left"
  /\ CommitDisconnect(s, removeSpectator(World, s), {}, "idle")
  /\ UNCHANGED << roomUsed, connected, dbGames >>

\* spectate-game events and chat-message events the clients send
MaxSpectates == 2

MaxChats == 2

\* the spectate-game handler: spectateGame
SpectateGame(s, roomId) ==
  /\ s \in connected
  /\ roomUsed.spectates < MaxSpectates
  /\ Known(roomId)
  /\ LET ref == activeRooms[roomId]
     IN IF ref = NoRef
          THEN Commit(s, [w |-> World,
                          out |-> {[to |-> s, ev |-> "room-error",
                                    code |-> "ROOM_NOT_FOUND"]},
                          pc |-> rpc[s], loc |-> rloc[s]])
          ELSE LET room == [roomObjs[ref] EXCEPT !.spectators = @ \cup {s}]
               IN Commit(s, [w |-> [World EXCEPT !.objs[ref] = room],
                             out |-> {[to |-> s, ev |-> "spectating-started",
                                       roomId |-> roomId,
                                       players |-> room.players,
                                       spectatorCount |->
                                         Cardinality(room.spectators)]},
                             pc |-> rpc[s], loc |-> rloc[s]])
  /\ roomUsed' = [roomUsed EXCEPT !.spectates = @ + 1]
  /\ UNCHANGED << connected, dbGames >>

\* room.chatHistory.slice(-100) once it is longer than 100
MaxChatHistory == 100

lastMessages(chatHistory) ==
  IF Len(chatHistory) > MaxChatHistory
    THEN SubSeq(chatHistory, Len(chatHistory) - MaxChatHistory + 1,
                Len(chatHistory))
    ELSE chatHistory

chatError(s, code) ==
  [w |-> World, out |-> {[to |-> s, ev |-> "chat-error", code |-> code]},
   pc |-> "idle", loc |-> None]

\* the chat-message handler: handleChatMessage up to the await of
\* saveChatMessageToDatabase; the id is a fresh uuid
HandleChatMessage(s, roomId, message) ==
  /\ s \in connected
  /\ roomUsed.chats < MaxChats
  /\ Known(roomId)
  /\ rpc[s] = "idle"
  /\ LET ref == activeRooms[roomId]
         sanitizedMessage == sanitizeChatMessage(message)
         chatMessage == [id |-> roomUsed.chats + 1, playerId |-> s,
                         message |-> sanitizedMessage, timestamp |-> now,
                         roomId |-> roomId]
     IN IF ref = NoRef
          THEN Commit(s, chatError(s, "ROOM_NOT_FOUND"))
        ELSE IF s \notin Members(roomObjs[ref]) /\ s \notin roomObjs[ref].spectators
          THEN Commit(s, chatError(s, "NOT_IN_ROOM"))
        ELSE IF sanitizedMessage = << >>
          THEN Commit(s, chatError(s, "INVALID_MESSAGE"))
        ELSE Commit(s, [w |-> [World EXCEPT !.objs[ref].chatHistory =
                                  lastMessages(Append(@, chatMessage))],
                        out |-> {},
                        pc |-> "chat",
                        loc |-> [roomId |-> roomId, chatMessage |-> chatMessage]])
  /\ roomUsed' = [roomUsed EXCEPT !.chats = @ + 1]
  /\ UNCHANGED << connected, dbGames >>

\* handleChatMessage after saveChatMessageToDatabase: the broadcast
ChatSaved(s) ==
  /\ rpc[s] = "chat"
  /\ LET chatMessage == rloc[s].chatMessage
     IN Commit(s, [w |-> [World EXCEPT !.chat =
                            Append(@, [room_id |-> chatMessage.roomId,
                                       player_id |-> chatMessage.playerId,
                                       message |-> chatMessage.message,
                                       timestamp |-> chatMessage.timestamp])],
                   out |-> {[to |-> rloc[s].roomId, ev |-> "chat-message",
                             id |-> chatMessage.id,
                             playerId |-> chatMessage.playerId,
                             message |-> chatMessage.message,
                             timestamp |-> chatMessage.timestamp]},
                   pc |-> "idle", loc |-> None])
  /\ UNCHANGED << roomUsed, connected, dbGames >>

\* the rooms getRoomList and broadcastRoomListUpdate list, in the order of the
\* Map
roomList(w) ==
  LET listed(roomId) == /\ ~ w.objs[w.reg[roomId]].isPrivate
                        /\ w.objs[w.reg[roomId]].status = "waiting"
      shown == SelectSeq(w.keys, listed)
  IN [i \in 1 .. Len(shown) |->
        LET room == w.objs[w.reg[shown[i]]]
        IN [id |-> room.id, currentPlayers |-> room.currentPlayers,
            maxPlayers |-> room.maxPlayers, status |-> room.status,
            createdAt |-> room.createdAt]]

\* the get-room-list handler: getRoomList
GetRoomList(s) ==
  /\ s \in connected
  /\ Commit(s, [w |-> World,
                out |-> {[to |-> s, ev |-> "room-list", rooms |-> roomList(World)]},
                pc |-> rpc[s], loc |-> rloc[s]])
  /\ UNCHANGED << roomUsed, connected, dbGames >>

maxEmptyTime == 5 * 60 * 1000

\* cleanupEmptyRooms, from position i of the Map on; deleteRoomFromDatabase is
\* not awaited
RECURSIVE cleanedFrom(_, _, _)
cleanedFrom(w, keys, i) ==
  IF i > Len(keys) THEN w
  ELSE LET roomId == keys[i]
           room == w.objs[w.reg[roomId]]
       IN IF room.currentPlayers = 0 /\ (now - room.createdAt) > maxEmptyTime
            THEN cleanedFrom([regDelete(w, roomId) EXCEPT !.db[roomId] = None],
                             keys, i + 1)
            ELSE cleanedFrom(w, keys, i + 1)

\* the interval of setupSocket runs cleanupEmptyRooms
CleanupEmptyRooms ==
  /\ CommitWorld(cleanedFrom(World, roomKeys, 1))
  /\ out' = {}
  /\ UNCHANGED << rpc, rloc, dpc, roomUsed, connected, dbGames >>

\* the server process is started again: the memory of the controller and the
\* running handlers are gone, the tables remain, the clients connect anew
Restart ==
  /\ roomUsed.restarts < MaxRestarts
  /\ roomUsed' = [roomUsed EXCEPT !.restarts = @ + 1]
  /\ roomObjs' = [ref \in Refs |-> None]
  /\ activeRooms' = [r \in Rooms |-> NoRef]
  /\ roomKeys' = << >>
  /\ playerRooms' = [s \in Sockets |-> NULL]
  /\ rpc' = [s \in Sockets |-> "idle"]
  /\ rloc' = [s \in Sockets |-> None]
  /\ dpc' = [s \in Sockets |-> "idle"]
  /\ connected' = Sockets
  /\ out' = {}
  /\ UNCHANGED << dbRooms, dbChat, dbGames >>

RoomFrame == UNCHANGED << pureVars, activeGames, dbPlayers, mpc, mloc, evictTimers,
                       gameUsed,
                       limiterVars, sanVars, gate >>

NextRoom ==
  \/ \E s \in Creators : \E opt \in CreateOptions :
       CreateRoom(s, opt) /\ RoomFrame
  \/ \E s \in Sockets :
       CreateRoomSaved(s) /\ RoomFrame
  \/ \E s \in Sockets : \E roomId \in Rooms : \E password \in Passwords :
       JoinRoom(s, roomId, password) /\ RoomFrame
  \/ \E s \in Sockets :
       JoinRoomLoaded(s) /\ RoomFrame
  \/ \E s \in Sockets :
       JoinRoomCompared(s) /\ RoomFrame
  \/ \E s \in Sockets :
       JoinRoomLeft(s) /\ RoomFrame
  \/ \E s \in Sockets :
       JoinRoomSaved(s) /\ RoomFrame
  \/ \E s \in Sockets :
       GameStarted(s) /\ RoomFrame
  \/ \E s \in Sockets :
       GameStartSaved(s) /\ RoomFrame
  \/ \E s \in Sockets : \E roomId \in Rooms :
       LeaveRoom(s, roomId) /\ RoomFrame
  \/ \E s \in Sockets :
       HandleDisconnect(s) /\ RoomFrame
  \/ \E s \in Sockets :
       HandleDisconnectLeft(s) /\ RoomFrame
  \/ Restart /\ RoomFrame

SpecRoom == Init /\ [][NextRoom]_vars

(***************************************************************************)
(* SocketRateLimiter                                                       *)
(***************************************************************************)
\* this.limits[eventType] || this.limits.default
limits(eventType) ==
  CASE eventType = "make-move"     -> 30
    [] eventType = "chat-message"  -> 20
    [] eventType = "join-room"     -> 10
    [] eventType = "create-room"   -> 5
    [] eventType = "leave-room"    -> 10
    [] eventType = "spectate-game" -> 10
    [] eventType = "get-room-list" -> 30
    [] OTHER                       -> 60

\* this.burstLimits[eventType] || this.burstLimits.default
burstLimits(eventType) ==
  CASE eventType = "make-move"    -> 10
    [] eventType = "chat-message" -> 5
    [] eventType = "join-room"    -> 3
    [] eventType = "create-room"  -> 2
    [] OTHER                      -> 20

\* the two windows of checkLimit and the age after which the sweep removes
\* an entry, in milliseconds
MinuteWindow == 60000
BurstWindow == 10000
maxAge == 5 * 60 * 1000

\* faulty variant: one more event passes before the minute limit applies
overMinuteMutOffByOne(eventsInMinute, minuteLimit) == eventsInMinute > minuteLimit

\* eventsInMinute >= minuteLimit
overMinute(eventsInMinute, minuteLimit) == eventsInMinute >= minuteLimit

\* eventsInBurst >= burstLimit
overBurst(eventsInBurst, burstLimit) == eventsInBurst >= burstLimit

\* event.type === eventType
sameType(event, eventType) == event.type = eventType

\* the values Date.now() takes, and the event types the clients send
Instants == {0, 9999, 10000, 59999, 60000, 360001}
EventTypes == {"create-room", "join-room"}
LimiterSockets == {"s1", "s2"}

\* the calls are bounded: MaxChecks by the pair (FocusSocket, FocusType),
\* MaxOther by the other pairs together
FocusSocket == "s1"
FocusType == "create-room"
MaxChecks == 6
MaxOther == 1

IsFocus(socketId, eventType) == socketId = FocusSocket /\ eventType = FocusType

\* base: the calls made before the first state of the specification
callNumber == nChecks.base + nChecks.focus + nChecks.other + 1

\* the object checkLimit works on, after lastSeen is set and old events are
\* dropped
cleaned(socketId) ==
  LET existing == clients[socketId]
      clientData == IF existing = None
                      THEN [events |-> << >>, lastSeen |-> now, warnings |-> 0]
                      ELSE existing
      recent(event) == now - event.timestamp < MinuteWindow
  IN [clientData EXCEPT !.lastSeen = now,
                        !.events = SelectSeq(clientData.events, recent)]

eventsInMinute(clientData, eventType) ==
  LET counted(event) == sameType(event, eventType)
  IN Len(SelectSeq(clientData.events, counted))

eventsInBurst(clientData, eventType) ==
  LET counted(event) == sameType(event, eventType)
                          /\ now - event.timestamp < BurstWindow
  IN Len(SelectSeq(clientData.events, counted))

\* faulty variant: a client with more than 10 warnings is rejected
allowedMutBlocksWarned(socketId, eventType) ==
  LET clientData == cleaned(socketId)
  IN /\ ~ overMinute(eventsInMinute(clientData, eventType), limits(eventType))
     /\ ~ overBurst(eventsInBurst(clientData, eventType), burstLimits(eventType))
     /\ clientData.warnings <= 10

\* the result of checkLimit(socketId, eventType) at the present instant
allowed(socketId, eventType) ==
  LET clientData == cleaned(socketId)
  IN /\ ~ overMinute(eventsInMinute(clientData, eventType), limits(eventType))
     /\ ~ overBurst(eventsInBurst(clientData, eventType), burstLimits(eventType))

\* faulty variant: the rejected event is recorded too
handleRateLimitMutRecords(socketId, eventType, clientData) ==
  IF clients[socketId] = None
    THEN clients
    ELSE [clients EXCEPT ![socketId] =
            [clientData EXCEPT !.warnings = clientData.warnings + 1,
                               !.events = Append(clientData.events,
                                  [type |-> eventType, timestamp |-> now])]]

\* handleRateLimit: the entry of the map, which is the object checkLimit has
\* already changed, gets one more warning; a client without an entry gets none
handleRateLimit(socketId, eventType, clientData) ==
  IF clients[socketId] = None
    THEN clients
    ELSE [clients EXCEPT ![socketId] =
            [clientData EXCEPT !.warnings = clientData.warnings + 1]]

\* checkLimit(socketId, eventType): the entry of the map, the log of admitted
\* events and the record of the call
checkLimit(socketId, eventType) ==
  /\ IF IsFocus(socketId, eventType)
       THEN /\ nChecks.focus < MaxChecks
            /\ nChecks' = [nChecks EXCEPT !.focus = @ + 1]
       ELSE /\ nChecks.other < MaxOther
            /\ nChecks' = [nChecks EXCEPT !.other = @ + 1]
  /\ LET clientData == cleaned(socketId)
         ok == allowed(socketId, eventType)
     IN /\ IF ok
             THEN /\ clients' = [clients EXCEPT ![socketId] =
                        [clientData EXCEPT !.events =
                           Append(clientData.events,
                                  [type |-> eventType, timestamp |-> now])]]
                  /\ admitted' = admitted \cup
                        {[socketId |-> socketId, type |-> eventType,
                          timestamp |-> now, n |-> callNumber]}
             ELSE /\ clients' = handleRateLimit(socketId, eventType, clientData)
                  /\ admitted' = admitted
        /\ lastCheck' = [socketId |-> socketId, type |-> eventType,
                         timestamp |-> now, n |-> callNumber, allowed |-> ok]
  /\ now' = now

\* what the rate limiting middleware emits when checkLimit returns false
rateLimitExceeded(socketId) ==
  {[to |-> socketId, ev |-> "error", reason |-> "Rate limit exceeded"]}

\* the rate limiting middleware of a connection receives a packet
CheckLimit(socketId, eventType) ==
  /\ socketId \in connected
  /\ checkLimit(socketId, eventType)
  /\ out' = IF allowed(socketId, eventType) THEN {}
            ELSE rateLimitExceeded(socketId)
  /\ UNCHANGED connected

\* time passes
Advance(t) ==
  /\ t > now
  /\ now' = t
  /\ out' = {}
  /\ UNCHANGED << clients, admitted, lastCheck, nChecks, connected >>

\* faulty variant: the age is five seconds, not five minutes
staleMutFiveSeconds(clientData) == now - clientData.lastSeen > 5 * 1000

\* now - clientData.lastSeen > maxAge
stale(clientData) == now - clientData.lastSeen > maxAge

\* cleanup() run by the two intervals
Sweep ==
  /\ clients' = [id \in Sockets |->
                   IF clients[id] # None /\ stale(clients[id])
                     THEN None ELSE clients[id]]
  /\ out' = {}
  /\ UNCHANGED << now, admitted, lastCheck, nChecks, connected >>

\* the disconnect handler's cleanup(socket.id)
LimiterDisconnect(socketId) ==
  /\ socketId \in connected
  /\ connected' = connected \ {socketId}
  /\ clients' = [clients EXCEPT ![socketId] = None]
  /\ out' = {}
  /\ UNCHANGED << now, admitted, lastCheck, nChecks >>

LimiterFrame == UNCHANGED << pureVars, gameVars, roomVars, sanVars, gate >>

NextLimiter ==
  \/ \E socketId \in LimiterSockets : \E eventType \in EventTypes :
       CheckLimit(socketId, eventType) /\ LimiterFrame
  \/ \E t \in Instants :
       Advance(t) /\ LimiterFrame
  \/ Sweep /\ LimiterFrame
  \/ \E socketId \in LimiterSockets :
       LimiterDisconnect(socketId) /\ LimiterFrame

SpecLimiter == Init /\ [][NextLimiter]_vars

(***************************************************************************)
(* SpecWarned: the limiter from the state in which a connection has had    *)
(* two create-room events admitted and nine rejected in the same instant   *)
(***************************************************************************)
WarnedCalls == 11

InitWarned ==
  /\ IdlePure /\ InitGame /\ InitRoom /\ IdleSanitize
  /\ gate = None
  /\ now = 0
  /\ clients = [s \in Sockets |->
                  IF s = FocusSocket
                    THEN [events |-> << [type |-> FocusType, timestamp |-> 0],
                                        [type |-> FocusType, timestamp |-> 0] >>,
                          lastSeen |-> 0,
                          warnings |-> WarnedCalls - burstLimits(FocusType)]
                    ELSE None]
  /\ admitted = {[socketId |-> FocusSocket, type |-> FocusType,
                  timestamp |-> 0, n |-> n] : n \in 1 .. burstLimits(FocusType)}
  /\ lastCheck = [socketId |-> FocusSocket, type |-> FocusType, timestamp |-> 0,
                  n |-> WarnedCalls, allowed |-> FALSE]
  /\ nChecks = [focus |-> 0, other |-> 0, base |-> WarnedCalls]
  /\ out = rateLimitExceeded(FocusSocket)

SpecWarned == InitWarned /\ [][NextLimiter]_vars

(***************************************************************************)
(* SpecLobby: public rooms with their spectators, the clock and the        *)
(* cleanup interval                                                        *)
(***************************************************************************)
LobbyOption == [maxPlayers |-> 2, isPrivate |-> FALSE, password |-> NULL]

\* the texts of the chat-message events: one that sanitizes to itself and one
\* that sanitizes to the empty string
ChatTexts == {JsString(Hello), JsString(<< "<", "b", ">" >>)}

\* the values Date.now() takes: the start, and past maxEmptyTime after it
LobbyInstants == {maxEmptyTime + 1}

\* who sends what: s1 creates rooms, s2 joins them, s3 watches them
LobbyCreators == {"s1"}

LobbyJoiners == {"s2"}

LobbySpectators == {"s3"}

NextLobby ==
  \/ \E s \in LobbyCreators :
       CreateRoom(s, LobbyOption) /\ RoomFrame
  \/ \E s \in Sockets :
       CreateRoomSaved(s) /\ RoomFrame
  \/ \E s \in LobbyJoiners : \E roomId \in Rooms :
       JoinRoom(s, roomId, NULL) /\ RoomFrame
  \/ \E s \in Sockets :
       JoinRoomLoaded(s) /\ RoomFrame
  \/ \E s \in Sockets :
       JoinRoomLeft(s) /\ RoomFrame
  \/ \E s \in Sockets :
       JoinRoomSaved(s) /\ RoomFrame
  \/ \E s \in Sockets :
       GameStarted(s) /\ RoomFrame
  \/ \E s \in Sockets :
       GameStartSaved(s) /\ RoomFrame
  \/ \E s \in LobbyCreators \cup LobbyJoiners : \E roomId \in Rooms :
       LeaveRoom(s, roomId) /\ RoomFrame
  \/ \E s \in Sockets :
       HandleDisconnect(s) /\ RoomFrame
  \/ \E s \in Sockets :
       HandleDisconnectLeft(s) /\ RoomFrame
  \/ \E s \in LobbySpectators : \E roomId \in Rooms :
       SpectateGame(s, roomId) /\ RoomFrame
  \/ CleanupEmptyRooms /\ RoomFrame
  \/ \E t \in LobbyInstants :
       Advance(t) /\ LimiterFrame
  \/ Restart /\ RoomFrame

SpecLobby == Init /\ [][NextLobby]_vars

(***************************************************************************)
(* SpecMatch: a public room from its creation to the game of its two       *)
(* members, with the leave-room and make-move events of both               *)
(***************************************************************************)
\* the cell a client asks for: the first empty cell of the board it last saw,
\* in row-major order
MatchOffered(roomId) ==
  LET board == seenBoard(roomId)
      empty(c) == board[c[1]][c[2]] = NULL
      empties == SelectSeq(CellsInOrder, empty)
  IN IF empties = << >> THEN {} ELSE {empties[1]}

NextMatch ==
  \/ \E s \in LobbyCreators :
       CreateRoom(s, LobbyOption) /\ RoomFrame
  \/ \E s \in Sockets :
       CreateRoomSaved(s) /\ RoomFrame
  \/ \E s \in LobbyJoiners : \E roomId \in GameRooms :
       JoinRoom(s, roomId, NULL) /\ RoomFrame
  \/ \E s \in Sockets :
       JoinRoomLoaded(s) /\ RoomFrame
  \/ \E s \in Sockets :
       JoinRoomSaved(s) /\ RoomFrame
  \/ \E s \in Sockets :
       GameStarted(s) /\ RoomFrame
  \/ \E s \in Sockets :
       GameStartSaved(s) /\ RoomFrame
  \/ \E s \in LobbyCreators \cup LobbyJoiners : \E roomId \in GameRooms :
       LeaveRoom(s, roomId) /\ RoomFrame
  \/ \E s \in GameSockets : \E roomId \in GameRooms :
       \E c \in MatchOffered(roomId) :
         MakeMoveBegin(s, roomId, c[1], c[2]) /\ GameFrame
  \/ \E s \in GameSockets :
       MakeMoveLoaded(s) /\ GameFrame
  \/ \E s \in GameSockets :
       MakeMoveSaved(s) /\ GameFrame
  \/ \E s \in GameSockets :
       HandleGameEnd(s) /\ GameFrame

SpecMatch == Init /\ [][NextMatch]_vars

(***************************************************************************)
(* SpecChat: public rooms with their spectators and chat, and restarts     *)
(***************************************************************************)
NextChat ==
  \/ \E s \in LobbyCreators :
       CreateRoom(s, LobbyOption) /\ RoomFrame
  \/ \E s \in Sockets :
       CreateRoomSaved(s) /\ RoomFrame
  \/ \E s \in LobbyCreators : \E roomId \in Rooms :
       LeaveRoom(s, roomId) /\ RoomFrame
  \/ \E s \in LobbySpectators : \E roomId \in Rooms :
       SpectateGame(s, roomId) /\ RoomFrame
  \/ \E s \in Sockets : \E roomId \in Rooms : \E message \in ChatTexts :
       HandleChatMessage(s, roomId, message) /\ RoomFrame
  \/ \E s \in Sockets :
       ChatSaved(s) /\ RoomFrame
  \/ \E s \in LobbyJoiners : \E roomId \in Rooms :
       JoinRoom(s, roomId, NULL) /\ RoomFrame
  \/ \E s \in Sockets :
       JoinRoomLoaded(s) /\ RoomFrame
  \/ \E s \in Sockets :
       JoinRoomLeft(s) /\ RoomFrame
  \/ \E s \in Sockets :
       JoinRoomSaved(s) /\ RoomFrame
  \/ \E s \in Sockets :
       GameStarted(s) /\ RoomFrame
  \/ \E s \in Sockets :
       GameStartSaved(s) /\ RoomFrame
  \/ Restart /\ RoomFrame

SpecChat == Init /\ [][NextChat]_vars

(***************************************************************************)
(* SpecEvents: the packets of a connection through the rate limiting       *)
(* middleware, the validation middleware and the listeners of setupSocket  *)
(***************************************************************************)
\* the keys of schemas
schemaNames ==
  {"make-move", "chat-message", "join-room", "create-room", "leave-room",
   "spectate-game"}

\* the characters the pattern of roomName admits, among those the clients use
roomNameChars == {"a", "b", "c", " ", "_", "-"}

\* the messages of the create-room schema for a payload, abortEarly being off
createRoomErrors(data) ==
  (IF Len(data.roomName) < 3
     THEN << "Room name must be at least 3 characters" >>
   ELSE IF Len(data.roomName) > 30
     THEN << "Room name cannot exceed 30 characters" >>
   ELSE IF \E i \in 1 .. Len(data.roomName) : data.roomName[i] \notin roomNameChars
     THEN << "Room name can only contain letters, numbers, spaces, underscores, and hyphens" >>
   ELSE << >>)
  \o (IF data.maxPlayers < 2 THEN << "Max players must be at least 2" >>
      ELSE IF data.maxPlayers > 10 THEN << "Max players cannot exceed 10" >>
      ELSE << >>)

\* validateSocketEvent(eventType, data); of the schemas, the one of create-room
\* is spelled out, the clients of SpecEvents sending no other event that has one
validateSocketEvent(eventType, data) ==
  IF eventType \notin schemaNames
    THEN [valid |-> FALSE, error |-> << "Unknown event type", eventType >>,
          data |-> None]
  ELSE LET errors == IF eventType = "create-room" THEN createRoomErrors(data)
                     ELSE << >>
       IN IF errors # << >>
            THEN [valid |-> FALSE, error |-> errors, data |-> None]
            ELSE [valid |-> TRUE, error |-> << >>,
                  data |-> IF eventType = "create-room"
                             THEN [roomName |-> data.roomName,
                                   isPrivate |-> FALSE,
                                   maxPlayers |-> data.maxPlayers]
                             ELSE data]

\* faulty variant: create-room is not validated either
skipValidationMutCreate == {"disconnect", "ping", "pong", "create-room"}

\* the events the validation middleware passes on without validating them
skipValidation == {"disconnect", "ping", "pong"}

\* the events of SpecEvents that setupSocket has a listener for
listeners == {"create-room", "get-room-list"}

\* a middleware returns without calling next(), or no listener is there
dropped(emitted) ==
  /\ out' = emitted
  /\ UNCHANGED << roomVars, connected, dbGames >>

\* const { roomName, isPrivate = false, password, maxPlayers = 2 } = data
createOptions(data) ==
  [isPrivate |-> IF "isPrivate" \in DOMAIN data THEN data.isPrivate ELSE FALSE,
   password |-> IF "password" \in DOMAIN data THEN data.password ELSE NULL,
   maxPlayers |-> IF "maxPlayers" \in DOMAIN data THEN data.maxPlayers ELSE 2]

\* the listener of the event runs, up to its first await
dispatch(s, eventName, data) ==
  IF eventName = "create-room" THEN CreateRoom(s, createOptions(data))
  ELSE IF eventName = "get-room-list" THEN GetRoomList(s)
  ELSE dropped({})

\* the stages a packet went through
passed(s, eventName, data, stages, handler) ==
  gate' = [socketId |-> s, event |-> eventName, data |-> data,
           stages |-> stages, handler |-> handler]

\* a packet [eventName, data] arrives on a connection: the two middlewares of
\* socket.use in their order, then the listener
Receive(s, eventName, data) ==
  /\ s \in connected
  /\ checkLimit(s, eventName)
  /\ IF ~ allowed(s, eventName)
       THEN /\ passed(s, eventName, data, << "checkLimit" >>, NULL)
            /\ dropped(rateLimitExceeded(s))
     ELSE IF eventName \in skipValidation
       THEN /\ passed(s, eventName, data, << "checkLimit" >>,
                      IF eventName \in listeners THEN eventName ELSE NULL)
            /\ dispatch(s, eventName, data)
     ELSE LET validation == validateSocketEvent(eventName, data)
          IN IF ~ validation.valid
               THEN /\ passed(s, eventName, data,
                              << "checkLimit", "validateSocketEvent" >>, NULL)
                    /\ dropped({[to |-> s, ev |-> "validation-error",
                                 event |-> eventName,
                                 error |-> validation.error]})
               ELSE /\ passed(s, eventName, data,
                              << "checkLimit", "validateSocketEvent" >>,
                              IF eventName \in listeners THEN eventName ELSE NULL)
                    /\ dispatch(s, eventName, validation.data)

\* the packets the clients of SpecEvents send; the parser of the transport
\* does not hand on a packet named after a reserved event such as disconnect
EventNames == {"create-room", "get-room-list", "ping", "bogus"}

Payloads(eventName) ==
  IF eventName = "create-room"
    THEN {[roomName |-> << "a", "b", "c" >>, maxPlayers |-> 2],
          [roomName |-> << "a", "b" >>, maxPlayers |-> 2],
          [roomName |-> << "a", "b", "c" >>, maxPlayers |-> 11]}
    ELSE {None}

EventSenders == {"s1", "s2"}

EventInstants == {10000, 60000}

EventFrame == UNCHANGED << pureVars, activeGames, dbPlayers, mpc, mloc, evictTimers,
                        gameUsed,
                        sanVars >>

NextEvents ==
  \/ \E s \in EventSenders : \E eventName \in EventNames :
       \E data \in Payloads(eventName) :
         Receive(s, eventName, data) /\ EventFrame
  \/ \E s \in Sockets :
       CreateRoomSaved(s) /\ RoomFrame
  \/ \E t \in EventInstants :
       Advance(t) /\ LimiterFrame

SpecEvents == Init /\ [][NextEvents]_vars

(***************************************************************************)
(* Properties of GameService                                               *)
(***************************************************************************)
\* the 8 triples: 3 rows, 3 columns, 2 diagonals
Triples ==
  {{<< x, y >> : y \in Idx} : x \in Idx}
    \cup {{<< x, y >> : x \in Idx} : y \in Idx}
    \cup {{<< i, i >> : i \in Idx}, {<< i, BOARD_SIZE - 1 - i >> : i \in Idx}}

Owns(board, k, t) == \A c \in t : board[c[1]][c[2]] = k

HasTriple(board, k) == \E t \in Triples : Owns(board, k, t)

NoTriple(board) == \A k \in PlayerKeys : ~ HasTriple(board, k)

Acceptable(gameState, playerId, x, y) ==
  /\ gameState.status = "playing"
  /\ playerId = gameState.players[gameState.currentPlayer].id
  /\ x.int /\ y.int /\ x.val \in 0 .. 2 /\ y.val \in 0 .. 2
  /\ gameState.board[x.val][y.val] = NULL

\* C1: for every board, status, current player, player id and coordinates,
\* validateMove and makeMove accept the move if and only if the status is
\* 'playing', the mover is the current player, both coordinates are integers
\* in 0..2 and the target cell is empty.
C1_AcceptedIff ==
  /\ (pgs # None /\ pcall = None) =>
        \A playerId \in Sockets : \A x \in Coords : \A y \in Coords :
          /\ validateMove(pgs, playerId, x, y).valid
                <=> Acceptable(pgs, playerId, x, y)
          /\ makeMove(pgs, playerId, x, y).success
                <=> Acceptable(pgs, playerId, x, y)
  /\ pcall # None =>
        (pcall.result.success <=> Acceptable(pgs, pcall.playerId, pcall.x, pcall.y))

C1_Witness ==
  /\ pcall # None
  /\ pcall.result.success
  /\ pcall.playerId = "s2"
  /\ pgs.currentPlayer = "player2"
  /\ pcall.result.gameState.board[1][2] = "player2"

\* C5: for every board, checkWinner returns null exactly when none of the 8
\* triples is three equal non-empty cells, and otherwise a player key that
\* owns all three cells of one of the 8 triples.
C5_CheckWinner ==
  /\ (pgs # None /\ pcall = None) =>
        LET w == checkWinner(pgs.board)
        IN /\ (w = NULL) <=> NoTriple(pgs.board)
           /\ w # NULL => (w \in PlayerKeys /\ HasTriple(pgs.board, w))
  /\ (pcall # None /\ pcall.result.success) =>
        LET g == pcall.result.gameState
            w == checkWinner(g.board)
        IN /\ (w = NULL) <=> NoTriple(g.board)
           /\ w # NULL => (w \in PlayerKeys /\ HasTriple(g.board, w))
           /\ (g.status = "finished") <=> (w # NULL)

\* makeMove has called checkWinner on a board where both players own a triple,
\* and on one where only the diagonal is owned
C5_Witness ==
  /\ pcall # None
  /\ pcall.result.success
  /\ HasTriple(pcall.result.gameState.board, "player1")
  /\ HasTriple(pcall.result.gameState.board, "player2")
  /\ pcall.result.gameState.status = "finished"

(***************************************************************************)
(* Properties of the make-move handler                                     *)
(***************************************************************************)
Fields(gameState) ==
  << gameState.board, gameState.currentPlayer, gameState.status,
     gameState.winner, gameState.moveHistory >>

\* C2: when a make-move is rejected, the board, currentPlayer, status, winner
\* and moveHistory the registry holds for the game are what they were, and no
\* game-state-update is broadcast.
C2_RejectionChangesNothing ==
  [][ (\E e \in out' : e.ev = "move-rejected") =>
        /\ \A r \in GameRooms :
             activeGames[r] # None =>
               /\ activeGames'[r] # None
               /\ Fields(activeGames'[r]) = Fields(activeGames[r])
        /\ \A e \in out' : e.ev # "game-state-update" ]_vars

\* the state an accepted move produced, held by the handler until its save
\* is done
Accepted(s) == mpc[s] = "save"

\* C3: when an accepted move makes one of the 8 triples hold three cells of
\* the mover, the resulting state is 'finished', its winner is the mover's id
\* and currentPlayer is not toggled.
C3_WinFinishes ==
  \A s \in GameSockets :
    Accepted(s) =>
      LET g == mloc[s].gameState
          last == g.moveHistory[Len(g.moveHistory)]
      IN /\ last.playerId = s
         /\ last.x = mloc[s].x /\ last.y = mloc[s].y
         /\ g.board[last.x][last.y] = last.playerKey
         /\ g.players[last.playerKey].id = s
         /\ HasTriple(g.board, last.playerKey) =>
              /\ g.status = "finished"
              /\ g.winner = s
              /\ g.currentPlayer = last.playerKey

\* in a game whose moves alternated, an accepted move of player1 completes a
\* triple
C3_Witness ==
  \E s \in GameSockets :
    /\ Accepted(s)
    /\ s = "s1"
    /\ LET g == mloc[s].gameState
       IN /\ HasTriple(g.board, "player1")
          /\ \A i \in 1 .. Len(g.moveHistory) :
               g.moveHistory[i].playerKey =
                 (IF i % 2 = 1 THEN "player1" ELSE "player2")
          /\ g.status = "finished"
          /\ g.winner = "s1"

\* C4: when an accepted move fills the board and no triple is three equal
\* non-empty cells, the resulting state is 'draw' with winner null; when the
\* move that fills the board completes a triple the result is 'finished' with
\* a winner, never 'draw'.
C4_FullBoard ==
  \A s \in GameSockets :
    (Accepted(s) /\ isBoardFull(mloc[s].gameState.board)) =>
      LET g == mloc[s].gameState
      IN IF NoTriple(g.board)
           THEN g.status = "draw" /\ g.winner = NULL
           ELSE g.status = "finished" /\ g.winner \in Sockets

\* the ninth move of a game fills the board with no triple
C4_Witness ==
  \E s \in GameSockets :
    /\ Accepted(s)
    /\ isBoardFull(mloc[s].gameState.board)
    /\ NoTriple(mloc[s].gameState.board)
    /\ Len(mloc[s].gameState.moveHistory) = 9
    /\ mloc[s].gameState.status = "draw"

ErrorEvents == {"error", "game-error", "room-error", "chat-error"}

\* C14: when the durable write that follows an in-memory transition fails, no
\* error event is sent to the requesting client and the transition already
\* applied in memory is kept.
C14_SaveFailureSilent ==
  [][ gameUsed'.saveFails > gameUsed.saveFails =>
        /\ \A e \in out' : e.ev \notin ErrorEvents
        /\ activeGames' = activeGames ]_vars

OtherKey(k) == IF k = "player1" THEN "player2" ELSE "player1"

IsPrefix(a, b) == Len(a) <= Len(b) /\ SubSeq(b, 1, Len(a)) = a

\* C15: when a game saved in status 'playing' after an accepted move is loaded
\* from the games table because the registry does not hold it, the loaded
\* state has the saved board and move history and the player to move is the
\* one whose turn it was, so the move of that player on an empty cell is
\* accepted and extends the saved history.
C15_ReloadKeepsTurn ==
  [][ \A s \in GameSockets :
        LET row == selectGame(dbGames, mloc[s].roomId)
        IN ( /\ mpc[s] = "load"
             /\ mpc'[s] # "load"
             /\ activeGames[mloc[s].roomId] = None
             /\ gameUsed'.restarts = gameUsed.restarts
             /\ \A e \in out' : e.ev # "game-error"
             /\ row # None
             /\ row.status = "playing"
             /\ Len(row.moves) > 0
             /\ row.board[mloc[s].x][mloc[s].y] = NULL
             /\ s = (IF OtherKey(row.moves[Len(row.moves)].playerKey) = "player1"
                      THEN row.player1_id ELSE row.player2_id) )
           => /\ mpc'[s] = "save"
              /\ mloc'[s].gameState.moveHistory
                   = Append(row.moves, [playerId |-> s,
                                        playerKey |-> OtherKey(row.moves[Len(row.moves)].playerKey),
                                        x |-> mloc[s].x, y |-> mloc[s].y,
                                        moveNumber |-> Len(row.moves) + 1]) ]_vars

\* C16: under any interleaving of the make-move handlers of a room, the state
\* published by an accepted move contains every move accepted before it: the
\* moves of the stored row and the moves of every state another handler has
\* published and is saving are a prefix of its move history.
C16_MovesLinearized ==
  [][ \A s \in GameSockets :
        (mpc[s] # "save" /\ mpc'[s] = "save") =>
          LET g == mloc'[s].gameState
              r == g.roomId
          IN /\ activeGames'[r] = g
             /\ dbGames[r] # None => IsPrefix(dbGames[r].moves, g.moveHistory)
             /\ \A t \in GameSockets \ {s} :
                  (mpc[t] \in {"save", "stats"} /\ mloc[t].roomId = r)
                    => IsPrefix(mloc[t].gameState.moveHistory, g.moveHistory) ]_vars

(***************************************************************************)
(* Properties of sanitizeChatMessage                                       *)
(***************************************************************************)
ScriptHello ==
  << "<", "s", "c", "r", "i", "p", "t", ">" >>
    \o << "a", "l", "e", "r", "t", "(", "1", ")" >>
    \o ScriptClose \o Hello

EscapedChars == {"<", ">", "\"", "'", "/"}

\* C18: sanitizeChatMessage applied to "<script>alert(1)</script>hello" returns
\* a string with no HTML tag in it, entity-escaped, whose content is only
\* "hello": the tags and the script content between them are removed.
C18_ScriptRemoved ==
  (stext = JsString(ScriptHello) /\ sres # None) =>
     /\ \A i \in 1 .. Len(sres.value) : sres.value[i] \notin EscapedChars
     /\ sres.value = Hello

(***************************************************************************)
(* Properties of SocketRateLimiter                                         *)
(***************************************************************************)
\* the events of a pair that were admitted before call n and less than w
\* milliseconds before instant t
AdmittedWithin(socketId, eventType, n, t, w) ==
  {e \in admitted : /\ e.socketId = socketId
                    /\ e.type = eventType
                    /\ e.n < n
                    /\ t - e.timestamp < w}

\* C6: checkLimit admits an event of a (connection, type) pair exactly when
\* fewer than L admitted events of the pair lie in the preceding 60 seconds
\* and fewer than B in the preceding 10 seconds, whatever other types and
\* other connections have sent; so no 60 s window ending at an admitted event
\* holds more than L admitted events of the pair, and no 10 s window more
\* than B.
C6_AdmitsIff ==
  /\ lastCheck # None =>
        LET c == lastCheck
            inMinute == Cardinality(AdmittedWithin(c.socketId, c.type, c.n,
                                                   c.timestamp, 60000))
            inBurst == Cardinality(AdmittedWithin(c.socketId, c.type, c.n,
                                                  c.timestamp, 10000))
        IN c.allowed <=> (inMinute < limits(c.type) /\ inBurst < burstLimits(c.type))
  /\ \A e \in admitted :
        /\ Cardinality(AdmittedWithin(e.socketId, e.type, e.n + 1,
                                      e.timestamp, 60000)) <= limits(e.type)
        /\ Cardinality(AdmittedWithin(e.socketId, e.type, e.n + 1,
                                      e.timestamp, 10000)) <= burstLimits(e.type)

\* the sixth create-room of a connection within a minute is rejected by the
\* minute limit alone, after the same connection was admitted another type
C6_Witness ==
  /\ lastCheck # None
  /\ ~ lastCheck.allowed
  /\ lastCheck.type = "create-room"
  /\ Cardinality(AdmittedWithin(lastCheck.socketId, "create-room", lastCheck.n,
                                lastCheck.timestamp, 60000)) = 5
  /\ Cardinality(AdmittedWithin(lastCheck.socketId, "create-room", lastCheck.n,
                                lastCheck.timestamp, 10000)) < 2
  /\ AdmittedWithin(lastCheck.socketId, "join-room", lastCheck.n,
                    lastCheck.timestamp, 60000) # {}

(***************************************************************************)
(* Properties of RoomController                                            *)
(***************************************************************************)
Registered(roomId) == activeRooms[roomId] # NoRef

RoomOf(roomId) == roomObjs[activeRooms[roomId]]

IsMember(playerId, roomId) ==
  Registered(roomId) /\ playerId \in Members(RoomOf(roomId))

\* C7: in every reachable state, whatever the interleaving of the join, leave,
\* create and disconnect handlers, no room has more members than maxPlayers.
C7_CapacityRespected ==
  \A roomId \in Rooms :
    Registered(roomId) =>
      Cardinality(Members(RoomOf(roomId))) <= RoomOf(roomId).maxPlayers

\* C8: in every reachable state each player id is among the members of at
\* most one room.
C8_OneRoomPerPlayer ==
  \A playerId \in Sockets :
    Cardinality({roomId \in Rooms : IsMember(playerId, roomId)}) <= 1

JoinPositions == {"save", "startGame", "startRoom"}

\* C9: when a joinRoom has brought a room whose status is 'waiting' to exactly
\* 2 members, then by the time the handler returns, other than with the error
\* of a failed save, a game exists for the room with those two members as its
\* players and the room's status is 'playing'.
C9_GameStartsAtTwo ==
  [][ \A s \in Sockets :
        ( /\ rpc[s] \in JoinPositions
          /\ rpc'[s] = "idle"
          /\ roomUsed'.restarts = roomUsed.restarts
          /\ \A e \in out' : e.ev # "room-error"
          /\ Len(rloc[s].joined.players) = 2
          /\ rloc[s].joined.status = "waiting" )
        => /\ dbGames'[rloc[s].roomId] # None
           /\ {dbGames'[rloc[s].roomId].player1_id,
               dbGames'[rloc[s].roomId].player2_id}
                = {rloc[s].joined.players[1], rloc[s].joined.players[2]}
           /\ roomObjs'[rloc[s].room].status = "playing" ]_vars

\* C10: a leaveRoom for a player who is not a member of the room changes
\* neither the members of any room, nor the player->room index, nor the stored
\* rooms, and emits no player-left.
C10_LeaveByNonMemberNoOp ==
  [][ \A s \in Sockets : \A roomId \in Rooms :
        (LeaveRoom(s, roomId) /\ ~ IsMember(s, roomId))
        => /\ UNCHANGED << roomObjs, activeRooms, playerRooms, dbRooms >>
           /\ \A e \in out' : e.ev # "player-left" ]_vars

\* the members the registry shows for a room id
membersIn(objs, reg, roomId) ==
  IF reg[roomId] = NoRef THEN {} ELSE Members(objs[reg[roomId]])

JoinFailures ==
  {"ROOM_NOT_FOUND", "ROOM_FULL", "PASSWORD_REQUIRED", "INVALID_PASSWORD"}

\* C20: a joinRoom that fails with ROOM_NOT_FOUND, ROOM_FULL, PASSWORD_REQUIRED
\* or INVALID_PASSWORD emits the error to the requesting client only and no
\* player-joined, and changes neither the members of any room nor the
\* player->room index.
C20_FailedJoinChangesNothing ==
  [][ \A s \in Sockets :
        (\E e \in out' : e.ev = "room-error" /\ e.to = s /\ e.code \in JoinFailures)
        => /\ \A e \in out' : e.to = s /\ e.ev # "player-joined"
           /\ \A roomId \in Rooms :
                membersIn(roomObjs', activeRooms', roomId)
                  = membersIn(roomObjs, activeRooms, roomId)
           /\ playerRooms' = playerRooms ]_vars

IsSpectator(socketId, roomId) ==
  Registered(roomId) /\ socketId \in RoomOf(roomId).spectators

\* the messages accepted for a room: those stored and those being stored
AcceptedChat(roomId) ==
  {[playerId |-> dbChat[i].player_id, message |-> dbChat[i].message] :
     i \in {j \in 1 .. Len(dbChat) : dbChat[j].room_id = roomId}}
    \cup {[playerId |-> rloc[s].chatMessage.playerId,
           message |-> rloc[s].chatMessage.message] :
            s \in {t \in Sockets : rpc[t] = "chat" /\ rloc[t].roomId = roomId}}

LoggedChat(roomId) ==
  LET log == RoomOf(roomId).chatHistory
  IN {[playerId |-> log[i].playerId, message |-> log[i].message] :
        i \in 1 .. Len(log)}

\* C17: a chat message whose sender is neither member nor spectator of the
\* room is rejected with NOT_IN_ROOM and leaves every chat log as it is; the
\* message of a member or spectator is appended, sanitized, to the room's log;
\* and in every state the log of a room holds at most 100 messages, in the
\* order they were accepted, and, while no more than 100 were accepted, every
\* message accepted for the room.
C17_ChatLog ==
  /\ [](\A roomId \in Rooms :
          Registered(roomId) =>
            LET log == RoomOf(roomId).chatHistory
            IN /\ Len(log) <= MaxChatHistory
               /\ \A i \in 1 .. Len(log) : \A j \in 1 .. Len(log) :
                    i < j => log[i].id < log[j].id
               /\ roomUsed.chats <= MaxChatHistory
                    => AcceptedChat(roomId) \subseteq LoggedChat(roomId))
  /\ [][ \A s \in Sockets : \A roomId \in Rooms : \A message \in ChatTexts :
           (HandleChatMessage(s, roomId, message) /\ Registered(roomId)) =>
              IF ~ IsMember(s, roomId) /\ ~ IsSpectator(s, roomId)
                THEN /\ out' = {[to |-> s, ev |-> "chat-error",
                                 code |-> "NOT_IN_ROOM"]}
                     /\ roomObjs' = roomObjs
                ELSE sanitizeChatMessage(message) # << >> =>
                       LET log == roomObjs'[activeRooms[roomId]].chatHistory
                       IN /\ Len(log) > 0
                          /\ log[Len(log)].playerId = s
                          /\ log[Len(log)].message = sanitizeChatMessage(message)
                          /\ SubSeq(log, 1, Len(log) - 1)
                               = RoomOf(roomId).chatHistory ]_vars

(***************************************************************************)
(* Properties of leaving, disconnecting and the cleanup of empty rooms     *)
(***************************************************************************)
\* C11: a leaveRoom or a disconnect that brings the members of a room to zero
\* does not remove the room at that moment: the room is still in the registry
\* after the step.
C11_EmptyRoomKept ==
  [][ \A roomId \in Rooms :
        (\E e \in out' : /\ e.ev = "player-left"
                         /\ e.to = roomId
                         /\ e.currentPlayers = 0)
        => activeRooms'[roomId] # NoRef ]_vars

\* C19: once the disconnect of a connection has been handled, and no other
\* handler of that connection is still running, the connection is a member of
\* no room and a spectator of no room.
C19_DisconnectClearsAll ==
  \A s \in Sockets :
    (s \notin connected /\ dpc[s] = "idle" /\ rpc[s] = "idle") =>
       \A roomId \in Rooms :
         Registered(roomId) => /\ ~ IsMember(s, roomId)
                               /\ ~ IsSpectator(s, roomId)

(***************************************************************************)
(* Properties of the event gateway                                         *)
(***************************************************************************)
\* the packet the step receives
Received(s, eventName) ==
  /\ nChecks' # nChecks
  /\ gate'.socketId = s
  /\ gate'.event = eventName

ListedRooms ==
  {roomId \in Rooms : /\ Registered(roomId)
                      /\ ~ RoomOf(roomId).isPrivate
                      /\ RoomOf(roomId).status = "waiting"}

\* C13: a get-room-list packet that checkLimit admits is answered to its
\* sender with a room-list whose rooms are exactly the registered rooms that
\* are public and waiting.
C13_RoomListAnswered ==
  [][ \A s \in Sockets :
        (Received(s, "get-room-list") /\ lastCheck'.allowed) =>
           \E e \in out' : /\ e.ev = "room-list"
                           /\ e.to = s
                           /\ {e.rooms[i].id : i \in 1 .. Len(e.rooms)}
                                = ListedRooms ]_vars

(***************************************************************************)
(* Properties of the end of a game                                         *)
(***************************************************************************)
AtLeast100(rating) == IF rating > 100 THEN rating ELSE 100

\* the row of a player after one game that ended with the given winner
CountedOnce(row, playerId, gameState) ==
  [games_played |-> row.games_played + 1,
   games_won |-> IF gameState.winner = playerId THEN row.games_won + 1
                 ELSE row.games_won,
   rating |-> IF gameState.status = "draw" THEN row.rating
              ELSE IF gameState.winner = playerId THEN AtLeast100(row.rating + 25)
              ELSE AtLeast100(row.rating - 15)]

\* the game of the room has ended and no handler is at work
Ended(roomId) ==
  /\ activeGames[roomId] # None
  /\ activeGames[roomId].status \in {"finished", "draw"}
  /\ \A s \in Sockets : mpc[s] = "idle"

\* C21: once a game has ended (the process not having been started again),
\* each of its two players has gamesPlayed one higher than before, the winner
\* alone has gamesWon one higher, the ratings are max(100, old + 25) for the
\* winner and max(100, old - 15) for the loser, a draw changes neither
\* gamesWon nor a rating, and no other player's row has changed.
C21_StatsOnGameEnd ==
  \A roomId \in GameRooms :
    (gameUsed.restarts = 0 /\ Ended(roomId)) =>
       LET gameState == activeGames[roomId]
           ids == {gameState.players[k].id : k \in PlayerKeys}
       IN \A s \in Sockets :
            dbPlayers[s] = IF s \in ids
                             THEN CountedOnce(InitialPlayers[s], s, gameState)
                             ELSE InitialPlayers[s]

(***************************************************************************)
(* Properties of the status of a room                                      *)
(***************************************************************************)
\* C22: in every state, every registered room whose status is playing has
\* exactly 2 members.
C22_PlayingHasTwoMembers ==
  \A roomId \in Rooms :
    (Registered(roomId) /\ RoomOf(roomId).status = "playing") =>
       /\ Cardinality(Members(RoomOf(roomId))) = 2
       /\ RoomOf(roomId).currentPlayers = 2

(***************************************************************************)
(* Properties of every game state the controller holds or has stored       *)
(***************************************************************************)
\* the game states in the registry and in the hands of the handlers
HeldGames ==
  {activeGames[r] : r \in {q \in Rooms : activeGames[q] # None}}
    \cup {mloc[s].gameState : s \in {q \in Sockets : mpc[q] \in {"save", "stats"}}}

\* the rows of the games table
StoredGames == {dbGames[r] : r \in {q \in Rooms : dbGames[q] # None}}

Occupied(board) ==
  Cardinality({c \in Idx \X Idx : board[c[1]][c[2]] # NULL})

\* C23: in every game state, status finished implies that the winner is the
\* id of one of the two players of the game, and status draw implies that the
\* winner is null and the board has no empty cell; the same of every stored
\* row.
C23_WinnerMatchesStatus ==
  /\ \A g \in HeldGames :
       /\ g.status = "finished" =>
            g.winner \in {g.players[k].id : k \in PlayerKeys}
       /\ g.status = "draw" => g.winner = NULL /\ isBoardFull(g.board)
  /\ \A row \in StoredGames :
       /\ row.status = "finished" =>
            row.winner_id \in {row.player1_id, row.player2_id}
       /\ row.status = "draw" => row.winner_id = NULL /\ isBoardFull(row.board)

\* a game won by player2 is held while a handler has its end in hand
C23_Witness ==
  \E s \in GameSockets :
    /\ mpc[s] = "stats"
    /\ mloc[s].gameState.status = "finished"
    /\ mloc[s].gameState.winner = "s2"
    /\ dbGames[mloc[s].roomId].status = "finished"

\* C24: in every game state the number of occupied cells of the board is the
\* length of moveHistory, and the moveNumber of each move is its position in
\* moveHistory, counted from 1; the same of every stored row.
C24_HistoryMatchesBoard ==
  /\ \A g \in HeldGames :
       /\ Occupied(g.board) = Len(g.moveHistory)
       /\ \A i \in 1 .. Len(g.moveHistory) : g.moveHistory[i].moveNumber = i
  /\ \A row \in StoredGames :
       /\ Occupied(row.board) = Len(row.moves)
       /\ \A i \in 1 .. Len(row.moves) : row.moves[i].moveNumber = i

\* a game loaded again after a restart has been played on to its fifth move
C24_Witness ==
  /\ gameUsed.restarts = 1
  /\ \E r \in GameRooms :
       /\ activeGames[r] # None
       /\ Len(activeGames[r].moveHistory) >= 5
       /\ dbGames[r] # None
       /\ dbGames[r].moves = activeGames[r].moveHistory

\* C25: the handler of an accepted move does not end (the process not being
\* started again) without the game-state-update of that move, with the new
\* board, currentPlayer, status and winner, having been sent to the room,
\* whether the write to the games table succeeded or failed.
C25_AcceptedMoveBroadcast ==
  [][ \A s \in GameSockets :
        (Accepted(s) /\ ~ Accepted(s)' /\ gameUsed'.restarts = gameUsed.restarts)
        => \E e \in out' :
             /\ e.ev = "game-state-update"
             /\ e.to = mloc[s].roomId
             /\ e.board = mloc[s].gameState.board
             /\ e.currentPlayer = mloc[s].gameState.currentPlayer
             /\ e.status = mloc[s].gameState.status
             /\ e.winner = mloc[s].gameState.winner ]_vars

(***************************************************************************)
(* Properties of the sweeps                                                *)
(***************************************************************************)
\* a joinRoom for the room has looked the room up and has not yet inserted
\* the player
Joining(roomId) ==
  \E s \in Sockets : /\ rpc[s] \in {"compare", "leave"}
                     /\ rloc[s].roomId = roomId

\* C26: cleanupEmptyRooms never removes a room for which a joinRoom is between
\* its lookup of the room and its insertion of the player: such a room is
\* still in the registry after the sweep.
C26_SweepSparesJoinedRoom ==
  [][ CleanupEmptyRooms =>
        \A roomId \in Rooms :
          (Registered(roomId) /\ Joining(roomId)) => activeRooms'[roomId] # NoRef ]_vars

(***************************************************************************)
(* Properties of startGame                                                 *)
(***************************************************************************)
\* C27: startGame called with exactly two players registers, and returns
\* unless the save throws, a game with an empty 3x3 board, player1 the first
\* listed player with symbol X, player2 the second with symbol O,
\* currentPlayer player1, status playing, winner null and no move; called
\* with any other number of players it throws and registers and stores no
\* game.
C27_StartGame ==
  pgs # None =>
    IF Len(pcall.players) = 2
      THEN LET g == activeGames[pcall.roomId]
           IN /\ g # None
              /\ g.roomId = pcall.roomId
              /\ \A x \in 0 .. 2 : \A y \in 0 .. 2 : g.board[x][y] = NULL
              /\ DOMAIN g.board = 0 .. 2
              /\ \A x \in 0 .. 2 : DOMAIN g.board[x] = 0 .. 2
              /\ g.players["player1"] = [id |-> pcall.players[1], symbol |-> "X"]
              /\ g.players["player2"] = [id |-> pcall.players[2], symbol |-> "O"]
              /\ g.currentPlayer = "player1"
              /\ g.status = "playing"
              /\ g.winner = NULL
              /\ g.moveHistory = << >>
              /\ pgs \in {g, Thrown}
      ELSE /\ pgs = Thrown
           /\ \A r \in Rooms : activeGames[r] = None /\ dbGames[r] = None
           /\ out = {}

\* startGame has returned the game of two different players
C27_Witness ==
  /\ pgs # None
  /\ pgs # Thrown
  /\ pcall.players = << "s2", "s1" >>
  /\ pgs.players["player1"].id = "s2"

(***************************************************************************)
(* Properties of the warnings of the limiter                               *)
(***************************************************************************)
\* the events of the type a connection's entry holds that are younger than
\* the window
Younger(socketId, eventType, window) ==
  IF clients[socketId] = None THEN 0
  ELSE Cardinality({i \in 1 .. Len(clients[socketId].events) :
                      /\ clients[socketId].events[i].type = eventType
                      /\ now - clients[socketId].events[i].timestamp < window})

WarningsOf(table, socketId) ==
  IF table[socketId] = None THEN 0 ELSE table[socketId].warnings

\* C28: each rejection by checkLimit raises the warnings of the connection by
\* exactly 1 and an admission leaves them as they are; and the call is
\* admitted exactly when the events of the type in the last 60 s and in the
\* last 10 s are below their limits, whatever the number of warnings.
C28_WarningsNeverBlock ==
  [][ \A socketId \in Sockets : \A eventType \in EventTypes :
        (lastCheck' # lastCheck /\ lastCheck'.socketId = socketId
                                /\ lastCheck'.type = eventType) =>
           /\ lastCheck'.allowed <=>
                /\ Younger(socketId, eventType, 60000) < limits(eventType)
                /\ Younger(socketId, eventType, 10000) < burstLimits(eventType)
           /\ WarningsOf(clients', socketId) =
                WarningsOf(clients, socketId)
                  + (IF lastCheck'.allowed THEN 0 ELSE 1) ]_vars

\* an event of a connection with more than 10 warnings has been admitted
C28_Witness ==
  /\ lastCheck.allowed
  /\ lastCheck.socketId = FocusSocket
  /\ WarningsOf(clients, FocusSocket) > 10

(***************************************************************************)
(* Properties of the sweep of the limiter                                  *)
(***************************************************************************)
\* the step is a checkLimit call of the connection
CallOf(socketId) ==
  /\ nChecks' # nChecks
  /\ lastCheck'.socketId = socketId

\* the sweep removes the entry of the connection in the step
Swept(socketId) ==
  /\ Sweep
  /\ clients[socketId] # None
  /\ clients'[socketId] = None

\* C29: lastSeen of an entry is the instant of the connection's last checkLimit
\* call (every call leaves an entry whose lastSeen is the present instant and
\* no other step changes the lastSeen of an entry it keeps); the sweep removes
\* an entry only when more than 5 minutes have passed since lastSeen; an
\* entry it removes holds no event younger than 60 seconds; and the sweep
\* leaves the result checkLimit would give unchanged for every connection and
\* event type.
C29_SweepOnlyStale ==
  [][ \A socketId \in LimiterSockets :
        /\ CallOf(socketId) =>
              /\ clients'[socketId] # None
              /\ clients'[socketId].lastSeen = now
        /\ (~ CallOf(socketId) /\ clients[socketId] # None
                                /\ clients'[socketId] # None) =>
              clients'[socketId].lastSeen = clients[socketId].lastSeen
        /\ Swept(socketId) =>
              /\ now - clients[socketId].lastSeen > 5 * 60 * 1000
              /\ \A i \in 1 .. Len(clients[socketId].events) :
                    now - clients[socketId].events[i].timestamp >= MinuteWindow
        /\ Sweep =>
              \A eventType \in EventTypes :
                allowed(socketId, eventType)' = allowed(socketId, eventType) ]_vars

\* the sweep has removed the entry of a connection that is still connected,
\* and the connection has called checkLimit again
C29_Witness ==
  /\ FocusSocket \in connected
  /\ \E e \in admitted : e.socketId = FocusSocket /\ e.timestamp = 0
  /\ clients[FocusSocket] # None
  /\ clients[FocusSocket].events = << [type |-> FocusType, timestamp |-> 360001] >>
  /\ clients[FocusSocket].warnings = 0
  /\ \E n \in 1 .. MaxChecks + MaxOther :
        /\ n \notin {e.n : e \in admitted}
        /\ n < lastCheck.n

(***************************************************************************)
(* Properties of the retention of an ended game                            *)
(***************************************************************************)
\* the registry holds a final state of the game of the room
Final(roomId) ==
  /\ activeGames[roomId] # None
  /\ activeGames[roomId].status \in {"finished", "draw"}

\* what a make-move receives from validateMove when the game is not playing
gameNotActive(s) ==
  {[to |-> s, ev |-> "move-rejected", reason |-> "GAME_NOT_ACTIVE"]}

\* C30: a final state ('finished' or 'draw') leaves the registry only when
\* the 30-second timer of handleGameEnd fires (or the process stops); while
\* it is there a make-move for the room is answered with GAME_NOT_ACTIVE;
\* and once the handlers have returned, a timer that will evict it is pending.
C30_FinalStateRetained ==
  [][ \A roomId \in GameRooms :
        /\ (Final(roomId) /\ activeGames'[roomId] # activeGames[roomId]) =>
              EvictGame(roomId) \/ GameRestart
        /\ \A s \in GameSockets :
              (Final(roomId) /\ \E c \in Offered(roomId) :
                                  MakeMoveBegin(s, roomId, c[1], c[2])) =>
                 out' = gameNotActive(s)
        /\ Ended(roomId)' => evictTimers'[roomId] > 0 ]_vars

(***************************************************************************)
(* Properties of spectateGame                                              *)
(***************************************************************************)
full(s) == [to |-> s, ev |-> "room-error", code |-> "ROOM_FULL"]

\* C31: spectateGame of a registered room adds the connection to the
\* spectators of the room and changes neither the members, the member count,
\* the capacity or the status of the room, nor the registry, the reverse
\* index or another room; and a joinRoom of a registered room is answered
\* ROOM_FULL exactly when the member count has reached the capacity, whatever
\* the spectators are.
C31_SpectatorsApart ==
  [][ \A roomId \in Rooms :
        /\ \A s \in LobbySpectators :
              (Registered(roomId) /\ SpectateGame(s, roomId)) =>
                 /\ activeRooms' = activeRooms
                 /\ playerRooms' = playerRooms
                 /\ roomObjs' = [roomObjs EXCEPT
                                   ![activeRooms[roomId]].spectators = @ \cup {s}]
                 /\ RoomOf(roomId)'.players = RoomOf(roomId).players
                 /\ RoomOf(roomId)'.currentPlayers = RoomOf(roomId).currentPlayers
                 /\ RoomOf(roomId)'.status = RoomOf(roomId).status
        /\ \A s \in LobbyJoiners :
              (Registered(roomId) /\ JoinRoom(s, roomId, NULL)) =>
                 (full(s) \in out' <=>
                    RoomOf(roomId).currentPlayers >= RoomOf(roomId).maxPlayers) ]_vars

\* a join-room has been accepted into a room that has a spectator, and the
\* room then holds two members and the spectator
C31_Witness ==
  \E roomId \in Rooms :
    /\ Registered(roomId)
    /\ RoomOf(roomId).spectators = LobbySpectators
    /\ RoomOf(roomId).players = << "s1", "s2" >>
    /\ rpc["s2"] = "save"

(***************************************************************************)
(* Properties of the emissions of one event                                *)
(***************************************************************************)
\* the emissions addressed to a room
Broadcasts(emitted) == {e \in emitted : e.to \in Rooms}

\* the game-state-update the make-move handler of the socket emitted in the
\* last step
UpdateOf(s) ==
  {e \in Broadcasts(out) : e.ev = "game-state-update" /\ e.playerId = s}

\* C32: the handler of one event emits at most one broadcast: no step emits
\* two, and a make-move handler that has emitted its game-state-update and
\* goes on emits no further broadcast.
C32_OneBroadcastPerEvent ==
  [][ /\ Cardinality(Broadcasts(out')) <= 1
      /\ \A s \in GameSockets :
            (UpdateOf(s) # {} /\ mpc[s] # "idle" /\ mpc'[s] # mpc[s]) =>
               Broadcasts(out') = {} ]_vars

(***************************************************************************)
(* Properties of the course of a game                                      *)
(***************************************************************************)
\* the game of a room as a make-move finds it: the state the registry holds
\* or, when it holds none, the row of the games table
GameOf(roomId) ==
  IF activeGames[roomId] # None THEN gameRow(activeGames[roomId])
  ELSE dbGames[roomId]

Terminal(roomId) ==
  /\ GameOf(roomId) # None
  /\ GameOf(roomId).status \in {"finished", "draw"}

\* a make-move for the room is accepted in the step
AcceptedFor(roomId) ==
  \E s \in GameSockets :
    /\ mpc[s] # "save"
    /\ mpc'[s] = "save"
    /\ mloc'[s].roomId = roomId

\* C33: once the game of a room has status finished or draw, no make-move for
\* it is accepted and its board, winner, status and move history stay as
\* they are, in memory and after the state has left memory (the process
\* running on).
C33_TerminalAbsorbing ==
  [][ \A roomId \in GameRooms :
        (Terminal(roomId) /\ gameUsed'.restarts = gameUsed.restarts) =>
          /\ ~ AcceptedFor(roomId)
          /\ GameOf(roomId)' = GameOf(roomId) ]_vars

\* the cells of a board that hold the mark of a player
CellsOf(board, playerKey) ==
  Cardinality({c \in Idx \X Idx : board[c[1]][c[2]] = playerKey})

Alternates(moves, board) ==
  /\ \A i \in 1 .. Len(moves) :
       moves[i].playerKey = IF i % 2 = 1 THEN "player1" ELSE "player2"
  /\ CellsOf(board, "player1") - CellsOf(board, "player2") \in {0, 1}

\* C34: in every game state the controller holds and in every stored row the
\* moves of the history are by player1, player2, player1, ... in turn, and
\* the board has as many cells of player1 as of player2, or one more.
C34_TurnsAlternate ==
  /\ \A g \in HeldGames : Alternates(g.moveHistory, g.board)
  /\ \A row \in StoredGames : Alternates(row.moves, row.board)

\* C35: in every game state with status finished, held or stored, the winner
\* is the id of the player who made the last move of the history, and a
\* handler whose move has finished the game holds a state won by its sender.
C35_WinnerMovedLast ==
  /\ \A g \in HeldGames :
       g.status = "finished" =>
         /\ Len(g.moveHistory) > 0
         /\ g.winner = g.moveHistory[Len(g.moveHistory)].playerId
  /\ \A row \in StoredGames :
       row.status = "finished" =>
         /\ Len(row.moves) > 0
         /\ row.winner_id = row.moves[Len(row.moves)].playerId
  /\ \A s \in GameSockets :
       (mpc[s] \in {"save", "stats"} /\ mloc[s].gameState.status = "finished")
         => mloc[s].gameState.winner = s

\* the second player has made the winning move and the finished game is
\* stored
C35_Witness ==
  \E roomId \in GameRooms :
    /\ dbGames[roomId] # None
    /\ dbGames[roomId].status = "finished"
    /\ dbGames[roomId].winner_id = dbGames[roomId].player2_id
    /\ dbGames[roomId].moves[Len(dbGames[roomId].moves)].playerKey = "player2"

C37_IndexMatchesMembers ==
  /\ \A playerId \in Sockets : \A roomId \in Rooms :
       playerRooms[playerId] = roomId <=> IsMember(playerId, roomId)
  /\ \A roomId \in Rooms :
       Registered(roomId) =>
         RoomOf(roomId).currentPlayers = Cardinality(Members(RoomOf(roomId)))

(***************************************************************************)
(* Properties of the window of the limiter                                 *)
(***************************************************************************)
\* the events of a type the entry of a connection holds that are younger
\* than 60 seconds
Recorded(socketId, eventType) ==
  IF clients[socketId] = None THEN 0
  ELSE LET counted(event) == /\ event.type = eventType
                             /\ now - event.timestamp < 60000
       IN Len(SelectSeq(clients[socketId].events, counted))

\* the events of a type checkLimit has admitted from a connection in the last
\* 60 seconds
AdmittedRecent(socketId, eventType) ==
  Cardinality({e \in admitted : /\ e.socketId = socketId
                                /\ e.type = eventType
                                /\ now - e.timestamp < 60000})

\* C38: for every connection and event type the entry of the limiter holds,
\* among its events younger than 60 seconds, exactly the events checkLimit
\* admitted in the last 60 seconds; a packet checkLimit rejects adds no event
\* to the entry; a packet it admits adds its event, whether the packet then
\* fails validation, finds no listener or is handled.
C38_WindowIsAdmitted ==
  [][ \A s \in EventSenders : \A eventName \in EventNames :
        /\ Recorded(s, eventName)' = AdmittedRecent(s, eventName)'
        /\ Received(s, eventName) =>
             clients'[s].events =
               IF lastCheck'.allowed
                 THEN Append(cleaned(s).events,
                             [type |-> eventName, timestamp |-> now])
                 ELSE cleaned(s).events ]_vars

\* a packet was admitted, failed validation and is recorded, after a packet
\* of the connection had been rejected and an admitted event had left the
\* window
C38_Witness ==
  /\ gate # None
  /\ gate.handler = NULL
  /\ gate.stages = << "checkLimit", "validateSocketEvent" >>
  /\ lastCheck.allowed
  /\ clients[gate.socketId] # None
  /\ clients[gate.socketId].warnings > 0
  /\ clients[gate.socketId].events = << [type |-> gate.event, timestamp |-> now] >>
  /\ \E e \in admitted : e.socketId = gate.socketId /\ e.timestamp < now

(***************************************************************************)
(* Properties of the players of a game                                     *)
(***************************************************************************)
\* C39: a make-move for the game of a room is accepted only from a player
\* who is a member of the room when the move is validated.
C39_MoversAreMembers ==
  [][ \A s \in GameSockets : \A roomId \in GameRooms :
        (mpc[s] # "save" /\ mpc'[s] = "save" /\ mloc'[s].roomId = roomId)
          => IsMember(s, roomId) ]_vars

(***************************************************************************)
(* Properties of the reasons of validateMove                               *)
(***************************************************************************)
InRange(x, y) ==
  x.int /\ y.int /\ x.val \in 0 .. 2 /\ y.val \in 0 .. 2

\* the rejection reasons that apply to a move
Reasons(gameState, playerId, x, y) ==
  (IF gameState.status # "playing" THEN {"GAME_NOT_ACTIVE"} ELSE {})
    \cup (IF playerId # gameState.players[gameState.currentPlayer].id
            THEN {"NOT_YOUR_TURN"} ELSE {})
    \cup (IF ~ InRange(x, y) THEN {"INVALID_COORDINATES"} ELSE {})
    \cup (IF InRange(x, y) /\ gameState.board[x.val][y.val] # NULL
            THEN {"CELL_OCCUPIED"} ELSE {})

ReasonOrder ==
  << "GAME_NOT_ACTIVE", "NOT_YOUR_TURN", "INVALID_COORDINATES", "CELL_OCCUPIED" >>

\* the first reason of the order that is among the given ones
FirstOf(reasons) ==
  ReasonOrder[CHOOSE i \in 1 .. Len(ReasonOrder) :
                /\ ReasonOrder[i] \in reasons
                /\ \A j \in 1 .. (i - 1) : ReasonOrder[j] \notin reasons]

\* C40: for every board, status, player to move, player id and coordinates,
\* validateMove accepts the move when no rejection reason applies and
\* otherwise reports the one reason that comes first in the order
\* GAME_NOT_ACTIVE, NOT_YOUR_TURN, INVALID_COORDINATES, CELL_OCCUPIED; the
\* result of a call made is that one.
C40_FirstReason ==
  /\ (pgs # None /\ pcall = None) =>
       \A playerId \in Sockets : \A x \in Coords : \A y \in Coords :
         LET reasons == Reasons(pgs, playerId, x, y)
             validation == validateMove(pgs, playerId, x, y)
         IN IF reasons = {}
              THEN validation.valid
              ELSE ~ validation.valid /\ validation.reason = FirstOf(reasons)
  /\ pcall # None =>
       LET reasons == Reasons(pgs, pcall.playerId, pcall.x, pcall.y)
       IN reasons # {} =>
            ~ pcall.result.success /\ pcall.result.reason = FirstOf(reasons)

\* a move to which three reasons apply has been made and was rejected with
\* the first of them
C40_Witness ==
  /\ pcall # None
  /\ Reasons(pgs, pcall.playerId, pcall.x, pcall.y)
       = {"GAME_NOT_ACTIVE", "NOT_YOUR_TURN", "INVALID_COORDINATES"}
  /\ pcall.result.reason = "GAME_NOT_ACTIVE"

====
